---- MODULE Spec2Model ----
(***************************************************************************)
(* Model of cardano_node_tests/utils/tx_view.py: the reconciliation of a   *)
(* transaction request (clusterlib.TxRawOutput) with the decoded output of *)
(* `transaction view`.                                                     *)
(*                                                                         *)
(* Texts that the code formats or parses (UTxO strings, amounts, policy    *)
(* and asset keys, era names) are sequences of one-character strings.      *)
(* A Python value that may be None is a set: {} is None, {n} is n.         *)
(* A dict key that may be absent is a sequence: <<>> absent, <<v>> present.*)
(*                                                                         *)
(* Model of cardano_node_tests/tests/test_kes.py: the KES tests run        *)
(* against a node and a CLI whose answers (blocks minted, kes-period-info  *)
(* results, CLI errors) are drawn nondeterministically.                    *)
(***************************************************************************)
EXTENDS Integers, Sequences, FiniteSets, TLC

VARIABLES pc, tx_raw_output, tx_view_raw, tx_loaded, raised, returned

\* test_kes.py: the test that runs and where it is, the cluster (era, epoch), the cold
\* counter file and its backup, the node (running, installed opcert), the opcert files
\* issued, the loop index, what was observed (block production, kes-period-info
\* results, the CLI call) and how the test ended
VARIABLES test, kpc, cluster_era, epoch, cold_counter, cold_counter_orig, node_running,
          opcert_file, opcerts, idx, blocks, infos, cli, outcome

tx_vars == <<pc, tx_raw_output, tx_view_raw, tx_loaded, raised, returned>>

kes_vars == <<test, kpc, cluster_era, epoch, cold_counter, cold_counter_orig, node_running,
              opcert_file, opcerts, idx, blocks, infos, cli, outcome>>

\* test_kes.py, short_kes_start_cluster run by several pytest-xdist workers:
\* configuration.UPDATE_COST_MODEL, the genesis spec the cluster scripts ship, where
\* each worker is, the holders of the file lock and the order they got it in, the
\* shared directory and the genesis spec in it, who copied the scripts, who rewrote
\* the genesis spec, and the path each worker's fixture returned
VARIABLES update_cost_model, genesis_template, wpc, lock, lock_order, destdir, genesis_spec,
          copied_by, written_by, start_script

fixture_vars == <<update_cost_model, genesis_template, wpc, lock, lock_order, destdir,
                  genesis_spec, copied_by, written_by, start_script>>

\* test_plutus_mint_raw.py and test_plutus_mint_build.py, _fund_issuer: where the call
\* is, its arguments, the amounts computed, the balance read first, the ledger (issuer
\* balance, outputs of the funding transaction), and what the call returned
VARIABLES fpc, fund_args, collateral_amounts, issuer_init_balance, ledger, fund_result

fund_vars == <<fpc, fund_args, collateral_amounts, issuer_init_balance, ledger, fund_result>>

\* the state outside check_tx_view
outside_tx_view == <<kes_vars, fixture_vars, fund_vars>>

\* the state outside the tests of TestKES
outside_kes == <<tx_vars, fixture_vars, fund_vars>>

\* the state outside short_kes_start_cluster, but for the era of the cluster
outside_fixture == <<tx_vars, test, kpc, epoch, cold_counter, cold_counter_orig, node_running,
                     opcert_file, opcerts, idx, blocks, infos, cli, outcome, cluster_era,
                     fund_vars>>

\* the state outside _fund_issuer
outside_fund == <<tx_vars, kes_vars, fixture_vars>>

vars == <<tx_vars, kes_vars, fixture_vars, fund_vars>>

(* ------------------------------ bounds --------------------------------- *)

\* longest list of UTxO references drawn for the request and for the view
MaxLen == 2

\* largest slot number drawn for the validity interval
MaxSlot == 2

(* --------------------------- Python helpers ---------------------------- *)

SeqToSet(s) == {s[i] : i \in DOMAIN s}

\* all sequences over S of length at most n
SeqsUpTo(S, n) == UNION {[1..k -> S] : k \in 0..n}

\* itertools.chain.from_iterable over a sequence of sequences
RECURSIVE Chain(_)
Chain(ss) == IF ss = <<>> THEN <<>> ELSE Head(ss) \o Chain(Tail(ss))

None == {}

\* Python truth value of an int-or-None
Truthy(x) == x # None /\ x # {0}

\* x or y
PyOr(x, y) == IF Truthy(x) THEN x ELSE y

\* dict.get(key) on a dict modelled as a function: None when the key is absent
DictGet(d, k) == IF k \in DOMAIN d THEN d[k] ELSE None

\* tx_loaded.get(key) or default, for a key modelled as an optional
GetOr(opt, default) == IF opt = <<>> THEN default ELSE opt[1]

Digit == <<"0", "1", "2", "3", "4", "5", "6", "7", "8", "9">>

\* str(n) for n >= 0
RECURSIVE NatToText(_)
NatToText(n) == IF n < 10 THEN <<Digit[n + 1]>> ELSE NatToText(n \div 10) \o <<Digit[(n % 10) + 1]>>

\* str(n)
IntToText(n) == IF n < 0 THEN <<"-">> \o NatToText(0 - n) ELSE NatToText(n)

DigitValue(c) == CHOOSE i \in 0..9 : Digit[i + 1] = c

IsDigit(c) == \E i \in 1..10 : Digit[i] = c

\* int(text) is defined (no ValueError)
IsIntText(t) == /\ t # <<>>
                /\ \A i \in DOMAIN t : IsDigit(t[i]) \/ (i = 1 /\ t[i] = "-" /\ Len(t) > 1)

RECURSIVE DigitsToNat(_)
DigitsToNat(t) == IF t = <<>> THEN 0 ELSE 10 * DigitsToNat(SubSeq(t, 1, Len(t) - 1)) + DigitValue(t[Len(t)])

\* int(text)
TextToInt(t) == IF t[1] = "-" THEN 0 - DigitsToNat(Tail(t)) ELSE DigitsToNat(t)

\* str.split(): the whitespace-separated tokens
RECURSIVE SplitFrom(_, _)
SplitFrom(t, cur) == IF t = <<>> THEN (IF cur = <<>> THEN <<>> ELSE <<cur>>)
                     ELSE IF Head(t) = " " THEN (IF cur = <<>> THEN <<>> ELSE <<cur>>) \o SplitFrom(Tail(t), <<>>)
                     ELSE SplitFrom(Tail(t), Append(cur, Head(t)))

Split(t) == SplitFrom(t, <<>>)

\* sub occurs in t at position i
OccursAt(t, sub, i) == /\ i + Len(sub) - 1 <= Len(t)
                       /\ SubSeq(t, i, i + Len(sub) - 1) = sub

\* `sub in t`
Contains(t, sub) == \E i \in 1..(Len(t) + 1) : OccursAt(t, sub, i)

\* str.replace(old, ""): every occurrence, left to right
RECURSIVE Remove(_, _)
Remove(t, old) == IF t = <<>> THEN <<>>
                  ELSE IF OccursAt(t, old, 1) THEN Remove(SubSeq(t, Len(old) + 1, Len(t)), old)
                  ELSE <<Head(t)>> \o Remove(Tail(t), old)

\* f"{utxo_hash}#{utxo_ix}"
UtxoString(r) == r.utxo_hash \o <<"#">> \o IntToText(r.utxo_ix)

(* ------------------------- program constants --------------------------- *)

\* clusterlib.DEFAULT_COIN
DEFAULT_COIN == <<"l", "o", "v", "e", "l", "a", "c", "e">>

PolicyPrefix == <<"p", "o", "l", "i", "c", "y", " ">>

AssetPrefix == <<"a", "s", "s", "e", "t", " ">>

DefaultAssetName == <<"d", "e", "f", "a", "u", "l", "t", " ", "a", "s", "s", "e", "t">>

HexChars == {"0", "1", "2", "3", "4", "5", "6", "7", "8", "9", "a", "b", "c", "d", "e", "f"}

(* --------------------------- normalizers ------------------------------- *)

\* A decoded mapping is a sequence of <<key, value>> pairs with distinct keys.
\* dict.get(key): {} when the key is absent, {value} otherwise
ItemsGet(items, k) == {items[i][2] : i \in {j \in DOMAIN items : items[j][1] = k}}

\* the longest prefix of t made of [0-9a-f]
RECURSIVE HexRun(_)
HexRun(t) == IF t = <<>> \/ Head(t) \notin HexChars THEN <<>> ELSE <<Head(t)>> \o HexRun(Tail(t))

\* re.search(r"asset ([0-9a-f]*)", asset_name).group(1)
AssetNameSearch(asset_name) ==
    LET i == CHOOSE j \in 1..Len(asset_name) :
                 /\ OccursAt(asset_name, AssetPrefix, j)
                 /\ \A k \in 1..(j - 1) : ~OccursAt(asset_name, AssetPrefix, k)
    IN  HexRun(SubSeq(asset_name, i + Len(AssetPrefix), Len(asset_name)))

\* the asset name as it enters the token
AssetName(asset_name) ==
    IF Contains(asset_name, AssetPrefix) THEN AssetNameSearch(asset_name)
    ELSE IF asset_name = DefaultAssetName THEN <<>>
    ELSE asset_name

PolicyId(policy_key) ==
    IF Contains(policy_key, PolicyPrefix) THEN Remove(policy_key, PolicyPrefix) ELSE policy_key

\* the token always written with a dot, also for an empty asset name
Token_Dotted(policy_key, asset_name) == policy_key \o <<".">> \o asset_name

\* f"{policy_key}.{asset_name}" if asset_name else policy_key
Token(policy_key, asset_name) ==
    IF asset_name # <<>> THEN policy_key \o <<".">> \o asset_name ELSE policy_key

\* the inner loop of _load_assets over one policy record
RECURSIVE LoadPolicy(_, _)
LoadPolicy(policy_key, policy_rec) ==
    IF policy_rec = <<>> THEN <<>>
    ELSE <<<<Head(policy_rec)[2], Token(policy_key, AssetName(Head(policy_rec)[1]))>>>>
         \o LoadPolicy(policy_key, Tail(policy_rec))

\* _load_assets: the list of (amount, token) pairs of a policy -> asset -> amount map
RECURSIVE LoadAssets(_)
LoadAssets(assets) ==
    IF assets = <<>> THEN <<>>
    ELSE IF Head(assets)[1] = DEFAULT_COIN THEN LoadAssets(Tail(assets))
    ELSE LoadPolicy(PolicyId(Head(assets)[1]), Head(assets)[2]) \o LoadAssets(Tail(assets))

\* An amount of a decoded output is [kind |-> "dict", items |-> ...] (Mary+)
\* or [kind |-> "str", text |-> ...] (older eras).
\* The exception _load_coins_data raises, "" when it returns
LoadCoinsDataError(coins_data) ==
    IF coins_data.kind = "dict" THEN ""
    ELSE IF Split(coins_data.text) = <<>> THEN "IndexError"
    ELSE IF ~IsIntText(Split(coins_data.text)[1]) THEN "ValueError"
    ELSE ""

\* the coin normalizer keeping a lovelace amount of 0
LoadCoinsData_KeepZero(coins_data) ==
    LET amount_lovelace == IF coins_data.kind = "dict"
                           THEN ItemsGet(coins_data.items, DEFAULT_COIN)
                           ELSE {TextToInt(Split(coins_data.text)[1])}
        policies_data == IF coins_data.kind = "dict" THEN coins_data.items ELSE <<>>
        loaded_data == IF amount_lovelace # None
                       THEN <<<<CHOOSE a \in amount_lovelace : TRUE, DEFAULT_COIN>>>>
                       ELSE <<>>
    IN  loaded_data \o LoadAssets(policies_data)

\* _load_coins_data: the (amount, token) pairs of a decoded amount
LoadCoinsData(coins_data) ==
    LET amount_lovelace == IF coins_data.kind = "dict"
                           THEN ItemsGet(coins_data.items, DEFAULT_COIN)
                           ELSE {TextToInt(Split(coins_data.text)[1])}
        policies_data == IF coins_data.kind = "dict" THEN coins_data.items ELSE <<>>
        loaded_data == IF Truthy(amount_lovelace)
                       THEN <<<<CHOOSE a \in amount_lovelace : TRUE, DEFAULT_COIN>>>>
                       ELSE <<>>
    IN  loaded_data \o LoadAssets(policies_data)

(* ------------------------- check_tx_view: data ------------------------- *)

\* VERSIONS (utils/versions.py): the era-name -> ordinal table
MARY == 4

ALONZO == 5

BABBAGE == 6

\* VERSIONS.DEFAULT_TX_ERA
DEFAULT_TX_ERA == BABBAGE

TextMARY == <<"M", "A", "R", "Y">>

TextALONZO == <<"A", "L", "O", "N", "Z", "O">>

TextBABBAGE == <<"B", "A", "B", "B", "A", "G", "E">>

\* hasattr(VERSIONS, name)
HasVersion(name) == name \in {TextMARY, TextALONZO, TextBABBAGE}

\* getattr(VERSIONS, name)
Version(name) == IF name = TextMARY THEN MARY ELSE IF name = TextALONZO THEN ALONZO ELSE BABBAGE

LowerCase == <<"a", "b", "c", "d", "e", "f", "g", "h", "i", "j", "k", "l", "m",
               "n", "o", "p", "q", "r", "s", "t", "u", "v", "w", "x", "y", "z">>

UpperCase == <<"A", "B", "C", "D", "E", "F", "G", "H", "I", "J", "K", "L", "M",
               "N", "O", "P", "Q", "R", "S", "T", "U", "V", "W", "X", "Y", "Z">>

UpperChar(c) == IF \E i \in 1..26 : LowerCase[i] = c
                THEN UpperCase[CHOOSE i \in 1..26 : LowerCase[i] = c]
                ELSE c

\* the name looked up as it is written
Upper_Verbatim(t) == t

\* str.upper()
Upper(t) == [i \in DOMAIN t |-> UpperChar(t[i])]

\* helpers.decode_bech32: the hex text of a reward address (header byte first)
DecodeBech32(address) ==
    IF address = "stake_key" THEN <<"e", "0", "a", "b", "c", "d">>
    ELSE IF address = "stake_script" THEN <<"f", "0", "1", "2", "3", "4">>
    ELSE IF address = "stake_abcd1234" THEN <<"e", "0", "a", "b", "c", "d", "1", "2", "3", "4">>
    ELSE <<"e", "0">>

\* CERTIFICATES_INFORMATION
CERTIFICATES_INFORMATION ==
    [name \in {"genesis key delegation", "MIR", "stake address deregistration",
               "stake address registration", "stake address delegation",
               "stake pool retirement", "stake pool registration"} |->
        CASE name = "genesis key delegation" -> {"VRF key hash", "delegate key hash", "genesis key hash"}
          [] name = "MIR" -> {"pot", "target stake addresses", "send to treasury", "send to reserves"}
          [] name = "stake address deregistration" -> {"stake credential key hash", "stake credential script hash"}
          [] name = "stake address registration" -> {"stake credential key hash", "stake credential script hash"}
          [] name = "stake address delegation" -> {"pool", "stake credential key hash", "stake credential script hash"}
          [] name = "stake pool retirement" -> {"epoch", "pool"}
          [] name = "stake pool registration" -> {"VRF key hash", "cost", "margin", "metadata",
                                                  "owners (stake key hashes)", "pledge", "pool",
                                                  "relays", "reward account"}]

(* --------------------- check_tx_view: derived values ------------------- *)

UtxoStrings(utxos) == {UtxoString(utxos[i]) : i \in DOMAIN utxos}

\* the txins of every script input, flattened
ScriptTxinsFlat(req) == Chain([i \in DOMAIN req.script_txins |-> req.script_txins[i].txins])

\* the request's inputs without those of the script inputs
TxRawTxins_PlainOnly(req) == UtxoStrings(req.txins)

\* tx_raw_txins
TxRawTxins(req) == UtxoStrings(req.txins) \cup UtxoStrings(ScriptTxinsFlat(req))

\* loaded_txins
LoadedTxins(view) == SeqToSet(GetOr(view.inputs, <<>>))

InputsMismatch(req, view) == TxRawTxins(req) # LoadedTxins(view)

\* the exception raised while the decoded outputs are expanded, "" when none
RECURSIVE OutputsError(_)
OutputsError(outs) ==
    IF outs = <<>> THEN ""
    ELSE IF LoadCoinsDataError(Head(outs).amount) # "" THEN LoadCoinsDataError(Head(outs).amount)
    ELSE OutputsError(Tail(outs))

\* loaded_txouts
LoadedTxouts(view) ==
    LET outs == GetOr(view.outputs, <<>>)
    IN  UNION {{<<outs[i].address, a[1], a[2]>> : a \in SeqToSet(LoadCoinsData(outs[i].amount))} :
               i \in DOMAIN outs}

\* tx_raw_txouts
TxRawTxouts(req) == {<<req.txouts[i].address, req.txouts[i].amount, req.txouts[i].coin>> :
                     i \in DOMAIN req.txouts}

\* the outputs compared for equality
OutputsMismatch_Equality(req, view) == TxRawTxouts(req) # LoadedTxouts(view)

OutputsMismatch(req, view) == ~(TxRawTxouts(req) \subseteq LoadedTxouts(view))

\* the exception raised while the decoded fee is read, "" when none
FeeError(view) ==
    IF Split(GetOr(view.fee, <<>>)) = <<>> THEN "IndexError"
    ELSE IF ~IsIntText(Split(GetOr(view.fee, <<>>))[1]) THEN "ValueError"
    ELSE ""

\* fee
LoadedFee(view) == TextToInt(Split(GetOr(view.fee, <<>>))[1])

FeeMismatch(req, view) == req.fee # -1 /\ req.fee # LoadedFee(view)

\* validity_range
ValidityRange(view) == GetOr(view.validity_range, <<>>)

\* the lower bound read the way the upper bound is, a slot of 0 counting as missing
LoadedInvalidBefore_Falsy(view) == PyOr(DictGet(ValidityRange(view), "lower bound"), None)

\* loaded_invalid_before
LoadedInvalidBefore(view) == DictGet(ValidityRange(view), "lower bound")

InvalidBeforeMismatch(req, view) == req.invalid_before # LoadedInvalidBefore(view)

\* loaded_invalid_hereafter
LoadedInvalidHereafter(view) ==
    PyOr(DictGet(ValidityRange(view), "upper bound"), DictGet(ValidityRange(view), "time to live"))

InvalidHereafterMismatch(req, view) == req.invalid_hereafter # LoadedInvalidHereafter(view)

\* loaded_mint
LoadedMint(view) == SeqToSet(LoadAssets(GetOr(view.mint, <<>>)))

\* tx_raw_mint
TxRawMint(req) ==
    LET mint_txouts == Chain([i \in DOMAIN req.mint |-> req.mint[i].txouts])
    IN  {<<mint_txouts[i].amount, mint_txouts[i].coin>> : i \in DOMAIN mint_txouts}

\* the mint pairs compared as lists, in the order of the request and of the view
MintMismatch_Ordered(req, view) ==
    LET mint_txouts == Chain([i \in DOMAIN req.mint |-> req.mint[i].txouts])
    IN  [i \in DOMAIN mint_txouts |-> <<mint_txouts[i].amount, mint_txouts[i].coin>>]
        # LoadAssets(GetOr(view.mint, <<>>))

MintMismatch(req, view) == TxRawMint(req) # LoadedMint(view)

\* dict.get(key) for a text value: {} is None, {t} the text t
TextGet(d, k) == IF k \in DOMAIN d THEN {d[k]} ELSE {}

\* Python truth value of a text-or-None
TruthyText(x) == x # {} /\ x # {<<>>}

\* x or y, on texts
PyOrText(x, y) == IF TruthyText(x) THEN x ELSE y

\* withdrawal.get("credential", {})
LegacyCredential(withdrawal) ==
    IF "credential" \in DOMAIN withdrawal THEN withdrawal["credential"] ELSE <<>>

\* the candidates tried with the script hash before the key hash
WithdrawalKey_ScriptFirst(withdrawal) ==
    PyOrText(TextGet(withdrawal, "stake credential script hash"),
    PyOrText(TextGet(withdrawal, "stake credential key hash"),
    PyOrText(TextGet(LegacyCredential(withdrawal), "script hash"),
             TextGet(LegacyCredential(withdrawal), "key hash"))))

\* withdrawal_key
WithdrawalKey(withdrawal) ==
    PyOrText(TextGet(withdrawal, "stake credential key hash"),
    PyOrText(TextGet(withdrawal, "stake credential script hash"),
    PyOrText(TextGet(LegacyCredential(withdrawal), "key hash"),
             TextGet(LegacyCredential(withdrawal), "script hash"))))

\* the exception raised while the decoded withdrawals are read, "" when none
RECURSIVE WithdrawalsError(_)
WithdrawalsError(ws) ==
    IF ws = <<>> THEN ""
    ELSE IF Split(Head(ws)["amount"]) = <<>> THEN "IndexError"
    ELSE IF ~IsIntText(Split(Head(ws)["amount"])[1]) THEN "ValueError"
    ELSE WithdrawalsError(Tail(ws))

\* loaded_withdrawals
LoadedWithdrawals(view) ==
    LET ws == GetOr(view.withdrawals, <<>>)
    IN  {<<WithdrawalKey(ws[i]), TextToInt(Split(ws[i]["amount"])[1])>> : i \in DOMAIN ws}

\* the decoded address with its header left in place
WithdrawalCredential_WithHeader(address) == DecodeBech32(address)

\* helpers.decode_bech32(r.address)[2:]
WithdrawalCredential(address) == SubSeq(DecodeBech32(address), 3, Len(DecodeBech32(address)))

\* tx_raw_withdrawals
TxRawWithdrawals(req) ==
    {<<{WithdrawalCredential(req.withdrawals[i].address)}, req.withdrawals[i].amount>> :
     i \in DOMAIN req.withdrawals}

WithdrawalsMismatch(req, view) == TxRawWithdrawals(req) # LoadedWithdrawals(view)

\* the plain certificate files counted alone
TxRawLenCerts_FilesOnly(req) == Len(req.certificate_files)

\* tx_raw_len_certs
TxRawLenCerts(req) == Len(req.certificate_files) + Len(req.complex_certs)

\* loaded_len_certs
LoadedLenCerts(view) == Len(GetOr(view.certificates, <<>>))

CertificatesCountMismatch(req, view) == TxRawLenCerts(req) # LoadedLenCerts(view)

\* a registered kind required to show exactly its allowed fields
BadCertificate_ExactFields(certificate) ==
    /\ certificate.name \in DOMAIN CERTIFICATES_INFORMATION
    /\ certificate.fields # CERTIFICATES_INFORMATION[certificate.name]

\* one decoded certificate has a field its registered kind does not allow
BadCertificate(certificate) ==
    /\ certificate.name \in DOMAIN CERTIFICATES_INFORMATION
    /\ CERTIFICATES_INFORMATION[certificate.name] # {}
    /\ ~(certificate.fields \subseteq CERTIFICATES_INFORMATION[certificate.name])

CertificateShapeMismatch(view) ==
    \E i \in DOMAIN GetOr(view.certificates, <<>>) : BadCertificate(GetOr(view.certificates, <<>>)[i])

\* the name of the first decoded certificate that fails the shape check
FirstBadCertificate(view) ==
    LET certs == GetOr(view.certificates, <<>>)
        i == CHOOSE j \in DOMAIN certs : BadCertificate(certs[j]) /\ \A k \in 1..(j - 1) : ~BadCertificate(certs[k])
    IN  certs[i].name

\* the exception raised while the two eras are looked up, "" when none
EraError(req, view) ==
    IF view.era = <<>> THEN "KeyError"
    ELSE IF ~HasVersion(Upper(view.era[1])) THEN "AttributeError"
    ELSE IF req.era # <<>> /\ ~HasVersion(Upper(req.era)) THEN "AttributeError"
    ELSE ""

\* loaded_tx_version
LoadedTxVersion(view) == Version(Upper(view.era[1]))

\* output_tx_version
OutputTxVersion(req) == IF req.era # <<>> THEN Version(Upper(req.era)) ELSE DEFAULT_TX_ERA

EraMismatch(req, view) == LoadedTxVersion(view) # OutputTxVersion(req)

\* the collateral check performed in every era
CollateralGate_EveryEra(version) == TRUE

\* collateral inputs are only available on Alonzo+ TX
CollateralGate(version) == version >= ALONZO

\* reference inputs are only available on Babbage+ TX
ReferenceGate(version) == version >= BABBAGE

\* hasattr(r, "collaterals")
HasCollaterals(r) == "collaterals" \in DOMAIN r

\* the collateral strings without those of the complex certificates
CollateralStrings_NoCerts(req) ==
    LET all_collateral_locations == req.mint \o req.script_txins \o req.script_withdrawals
        carrying == SelectSeq(all_collateral_locations, HasCollaterals)
        collateral_ins == Chain([i \in DOMAIN carrying |-> carrying[i].collaterals])
    IN  UtxoStrings(collateral_ins)

\* _check_collateral_inputs: collateral_strings
CollateralStrings(req) ==
    LET all_collateral_locations == req.mint \o req.script_txins \o req.script_withdrawals \o req.complex_certs
        carrying == SelectSeq(all_collateral_locations, HasCollaterals)
        collateral_ins == Chain([i \in DOMAIN carrying |-> carrying[i].collaterals])
    IN  UtxoStrings(collateral_ins)

\* _check_collateral_inputs
CheckCollateralInputs(req, expected_collateral) == CollateralStrings(req) = SeqToSet(expected_collateral)

\* getattr(s, "reference_txin", None) is set
HasReferenceTxin(s) == "reference_txin" \in DOMAIN s /\ s.reference_txin # <<>>

\* the reference strings of the script inputs alone
ReferenceStrings_ScriptOnly(req) ==
    LET with_ref == SelectSeq(req.script_txins, HasReferenceTxin)
        reference_scripts == [i \in DOMAIN with_ref |-> with_ref[i].reference_txin[1]]
    IN  UtxoStrings(reference_scripts)

\* _check_reference_inputs: reference_strings
ReferenceStrings(req) ==
    LET with_ref == SelectSeq(req.script_txins, HasReferenceTxin)
        reference_scripts == [i \in DOMAIN with_ref |-> with_ref[i].reference_txin[1]]
        all_reference_inputs == req.readonly_reference_txins \o reference_scripts
    IN  UtxoStrings(all_reference_inputs)

\* _check_reference_inputs
CheckReferenceInputs(req, expected_reference_inputs) ==
    ReferenceStrings(req) = SeqToSet(expected_reference_inputs)

\* no test of test_kes.py runs
KesIdle ==
    /\ test = ""
    /\ kpc = ""
    /\ epoch = 0
    /\ cold_counter = 0
    /\ cold_counter_orig = {}
    /\ node_running = FALSE
    /\ opcert_file = <<>>
    /\ opcerts = <<>>
    /\ idx = 0
    /\ blocks = <<>>
    /\ infos = <<>>
    /\ cli = <<>>
    /\ outcome = ""

NoKesTest ==
    /\ cluster_era = 0
    /\ KesIdle

\* no worker runs short_kes_start_cluster
NoFixture ==
    /\ update_cost_model = FALSE
    /\ genesis_template = <<>>
    /\ wpc = <<>>
    /\ lock = {}
    /\ lock_order = <<>>
    /\ destdir = <<>>
    /\ genesis_spec = <<>>
    /\ copied_by = <<>>
    /\ written_by = <<>>
    /\ start_script = <<>>

\* no call of _fund_issuer runs
NoFund ==
    /\ fpc = ""
    /\ fund_args = <<>>
    /\ collateral_amounts = <<>>
    /\ issuer_init_balance = 0
    /\ ledger = <<>>
    /\ fund_result = <<>>

(* ------------------------ check_tx_view: steps ------------------------- *)

\* the decoded view, once loaded
Loaded == tx_loaded[1]

\* raised.values: the values the message formats, in the order of its text
NotRaised == [exc |-> "", msg |-> "", values |-> <<>>, at |-> ""]

\* raise exc(msg) at the current step, msg formatting the given values
Raise(exc, msg, values) ==
    /\ raised' = [exc |-> exc, msg |-> msg, values |-> values, at |-> pc]
    /\ pc' = "raised"

\* fall through to the next step
Goto(next) ==
    /\ pc' = next
    /\ raised' = raised

\* a blob that does not parse taken for the mapping it was meant to be
LoadTxView_Lenient ==
    /\ pc = "load"
    /\ tx_loaded' = <<tx_view_raw.doc>>
    /\ Goto("inputs")
    /\ UNCHANGED <<outside_tx_view, tx_raw_output, tx_view_raw, returned>>

\* tx_view_raw = cluster_obj.view_tx(...); tx_loaded = load_tx_view(tx_view_raw)
LoadTxView ==
    /\ pc = "load"
    /\ IF tx_view_raw.wellformed
       THEN /\ tx_loaded' = <<tx_view_raw.doc>>
            /\ Goto("inputs")
       ELSE /\ tx_loaded' = tx_loaded
            /\ Raise("YAMLError", "", <<>>)
    /\ UNCHANGED <<outside_tx_view, tx_raw_output, tx_view_raw, returned>>

CheckInputs ==
    /\ pc = "inputs"
    /\ IF InputsMismatch(tx_raw_output, Loaded)
       THEN Raise("AssertionError", "txins", <<TxRawTxins(tx_raw_output), LoadedTxins(Loaded)>>)
       ELSE Goto("outputs")
    /\ UNCHANGED <<outside_tx_view, tx_raw_output, tx_view_raw, tx_loaded, returned>>

CheckOutputs ==
    /\ pc = "outputs"
    /\ IF OutputsError(GetOr(Loaded.outputs, <<>>)) # ""
       THEN Raise(OutputsError(GetOr(Loaded.outputs, <<>>)), "", <<>>)
       ELSE IF OutputsMismatch(tx_raw_output, Loaded)
       THEN Raise("AssertionError", "txouts", <<TxRawTxouts(tx_raw_output), LoadedTxouts(Loaded)>>)
       ELSE Goto("fee")
    /\ UNCHANGED <<outside_tx_view, tx_raw_output, tx_view_raw, tx_loaded, returned>>

CheckFee ==
    /\ pc = "fee"
    /\ IF FeeError(Loaded) # ""
       THEN Raise(FeeError(Loaded), "", <<>>)
       ELSE IF FeeMismatch(tx_raw_output, Loaded)
       THEN Raise("AssertionError", "fee", <<tx_raw_output.fee, LoadedFee(Loaded)>>)
       ELSE Goto("invalid_before")
    /\ UNCHANGED <<outside_tx_view, tx_raw_output, tx_view_raw, tx_loaded, returned>>

CheckInvalidBefore ==
    /\ pc = "invalid_before"
    /\ IF InvalidBeforeMismatch(tx_raw_output, Loaded)
       THEN Raise("AssertionError", "invalid before",
                  <<tx_raw_output.invalid_before, LoadedInvalidBefore(Loaded)>>)
       ELSE Goto("invalid_hereafter")
    /\ UNCHANGED <<outside_tx_view, tx_raw_output, tx_view_raw, tx_loaded, returned>>

CheckInvalidHereafter ==
    /\ pc = "invalid_hereafter"
    /\ IF InvalidHereafterMismatch(tx_raw_output, Loaded)
       THEN Raise("AssertionError", "invalid hereafter",
                  <<tx_raw_output.invalid_hereafter, LoadedInvalidHereafter(Loaded)>>)
       ELSE Goto("mint")
    /\ UNCHANGED <<outside_tx_view, tx_raw_output, tx_view_raw, tx_loaded, returned>>

CheckMint ==
    /\ pc = "mint"
    /\ IF MintMismatch(tx_raw_output, Loaded)
       THEN Raise("AssertionError", "mint", <<TxRawMint(tx_raw_output), LoadedMint(Loaded)>>)
       ELSE Goto("withdrawals")
    /\ UNCHANGED <<outside_tx_view, tx_raw_output, tx_view_raw, tx_loaded, returned>>

\* the withdrawals step with the legacy key filled into every record it reads
\* (setdefault in place of get)
CheckWithdrawals_SetDefault ==
    /\ pc = "withdrawals"
    /\ IF WithdrawalsError(GetOr(Loaded.withdrawals, <<>>)) # ""
       THEN Raise(WithdrawalsError(GetOr(Loaded.withdrawals, <<>>)), "", <<>>)
       ELSE IF WithdrawalsMismatch(tx_raw_output, Loaded)
       THEN Raise("AssertionError", "withdrawals",
                  <<TxRawWithdrawals(tx_raw_output), LoadedWithdrawals(Loaded)>>)
       ELSE Goto("certificates")
    /\ tx_loaded' = <<[Loaded EXCEPT !.withdrawals =
                          IF @ = <<>> THEN @
                          ELSE <<[i \in DOMAIN @[1] |-> @[1][i] @@ ("credential" :> <<>>)]>>]>>
    /\ UNCHANGED <<outside_tx_view, tx_raw_output, tx_view_raw, returned>>

CheckWithdrawals ==
    /\ pc = "withdrawals"
    /\ IF WithdrawalsError(GetOr(Loaded.withdrawals, <<>>)) # ""
       THEN Raise(WithdrawalsError(GetOr(Loaded.withdrawals, <<>>)), "", <<>>)
       ELSE IF WithdrawalsMismatch(tx_raw_output, Loaded)
       THEN Raise("AssertionError", "withdrawals",
                  <<TxRawWithdrawals(tx_raw_output), LoadedWithdrawals(Loaded)>>)
       ELSE Goto("certificates")
    /\ UNCHANGED <<outside_tx_view, tx_raw_output, tx_view_raw, tx_loaded, returned>>

CheckCertificatesCount ==
    /\ pc = "certificates"
    /\ IF CertificatesCountMismatch(tx_raw_output, Loaded)
       THEN Raise("AssertionError", "certificates",
                  <<TxRawLenCerts(tx_raw_output), LoadedLenCerts(Loaded)>>)
       ELSE Goto("certificate_shapes")
    /\ UNCHANGED <<outside_tx_view, tx_raw_output, tx_view_raw, tx_loaded, returned>>

CheckCertificateShapes ==
    /\ pc = "certificate_shapes"
    /\ IF CertificateShapeMismatch(Loaded)
       THEN Raise("AssertionError", "The output of the certificate", <<FirstBadCertificate(Loaded)>>)
       ELSE Goto("era")
    /\ UNCHANGED <<outside_tx_view, tx_raw_output, tx_view_raw, tx_loaded, returned>>

CheckEra ==
    /\ pc = "era"
    /\ IF EraError(tx_raw_output, Loaded) # ""
       THEN Raise(EraError(tx_raw_output, Loaded), "", <<>>)
       ELSE IF EraMismatch(tx_raw_output, Loaded)
       THEN Raise("AssertionError", "transaction era is not the expected",
                  <<LoadedTxVersion(Loaded), OutputTxVersion(tx_raw_output)>>)
       ELSE Goto("collateral")
    /\ UNCHANGED <<outside_tx_view, tx_raw_output, tx_view_raw, tx_loaded, returned>>

CheckCollateral ==
    /\ pc = "collateral"
    /\ IF CollateralGate(LoadedTxVersion(Loaded))
       THEN IF Loaded.collateral_inputs = <<>>
            THEN Raise("KeyError", "collateral inputs", <<>>)
            ELSE IF ~CheckCollateralInputs(tx_raw_output, Loaded.collateral_inputs[1])
            THEN Raise("AssertionError", "collateral inputs are not the expected", <<>>)
            ELSE Goto("reference")
       ELSE Goto("reference")
    /\ UNCHANGED <<outside_tx_view, tx_raw_output, tx_view_raw, tx_loaded, returned>>

CheckReference ==
    /\ pc = "reference"
    /\ IF /\ ReferenceGate(LoadedTxVersion(Loaded))
          /\ ~CheckReferenceInputs(tx_raw_output, GetOr(Loaded.reference_inputs, <<>>))
       THEN Raise("AssertionError", "reference inputs are not the expected", <<>>)
       ELSE Goto("return")
    /\ UNCHANGED <<outside_tx_view, tx_raw_output, tx_view_raw, tx_loaded, returned>>

\* the reconciliation ending without handing the decoded view back
Return_None ==
    /\ pc = "return"
    /\ returned' = <<>>
    /\ pc' = "done"
    /\ UNCHANGED <<outside_tx_view, tx_raw_output, tx_view_raw, tx_loaded, raised>>

\* return tx_loaded
Return ==
    /\ pc = "return"
    /\ returned' = <<Loaded>>
    /\ pc' = "done"
    /\ UNCHANGED <<outside_tx_view, tx_raw_output, tx_view_raw, tx_loaded, raised>>

Next ==
    \/ LoadTxView
    \/ CheckInputs
    \/ CheckOutputs
    \/ CheckFee
    \/ CheckInvalidBefore
    \/ CheckInvalidHereafter
    \/ CheckMint
    \/ CheckWithdrawals
    \/ CheckCertificatesCount
    \/ CheckCertificateShapes
    \/ CheckEra
    \/ CheckCollateral
    \/ CheckReference
    \/ Return

(* ----------------------- the requests and views drawn ------------------ *)

Utxo(h, ix) == [utxo_hash |-> h, utxo_ix |-> ix]

U1 == Utxo(<<"a">>, 0)

U2 == Utxo(<<"a">>, 1)

U3 == Utxo(<<"b">>, 10)

Utxos == {U1, U2, U3}

\* the "hash#index" strings a decoded view may list
ViewRefs == {<<"a", "#", "0">>, <<"a", "#", "1">>, <<"b", "#", "1", "0">>, <<"b", "#", "1">>}

\* absent, or a list of at most MaxLen strings
ViewRefLists == {<<>>} \cup {<<l>> : l \in SeqsUpTo(ViewRefs, MaxLen)}

ScriptTxIn(txins, collaterals, reference_txin) ==
    [txins |-> txins, collaterals |-> collaterals, reference_txin |-> reference_txin]

\* "N Lovelace"
LovelaceText(n) == IntToText(n) \o <<" ", "L", "o", "v", "e", "l", "a", "c", "e">>

StrAmount(text) == [kind |-> "str", text |-> text]

DictAmount(items) == [kind |-> "dict", items |-> items]

PolicyP1 == <<"p", "o", "l", "i", "c", "y", " ", "p", "1">>

Asset6161 == <<"a", "s", "s", "e", "t", " ", "6", "1", "6", "1">>

TokenP1 == <<"p", "1", ".", "6", "1", "6", "1">>

TxOut(address, amount, coin) == [address |-> address, amount |-> amount, coin |-> coin]

ViewOut(address, amount) == [address |-> address, amount |-> amount]

\* a request with one plain input, one plain output and a fee
BaseRequest ==
    [txins |-> <<U1>>,
     script_txins |-> <<>>,
     txouts |-> <<TxOut("addr1", 2, DEFAULT_COIN)>>,
     fee |-> 1,
     invalid_before |-> None,
     invalid_hereafter |-> None,
     mint |-> <<>>,
     withdrawals |-> <<>>,
     script_withdrawals |-> <<>>,
     complex_certs |-> <<>>,
     certificate_files |-> <<>>,
     era |-> <<>>,
     readonly_reference_txins |-> <<>>]

\* the decoded view of BaseRequest
BaseView ==
    [inputs |-> <<<<UtxoString(U1)>>>>,
     outputs |-> <<<<ViewOut("addr1", DictAmount(<<<<DEFAULT_COIN, 2>>>>))>>>>,
     fee |-> <<LovelaceText(1)>>,
     validity_range |-> <<[k \in {"lower bound", "upper bound"} |-> None]>>,
     mint |-> <<>>,
     withdrawals |-> <<>>,
     certificates |-> <<>>,
     era |-> <<<<"B", "a", "b", "b", "a", "g", "e">>>>,
     collateral_inputs |-> <<<<>>>>,
     reference_inputs |-> <<>>]

Blob(doc) == [wellformed |-> TRUE, doc |-> doc]

\* requests x views that vary the inputs
InitInputs ==
    LET script_txins == {<<>>, <<ScriptTxIn(<<U1>>, <<>>, <<>>), ScriptTxIn(<<U2>>, <<>>, <<>>)>>}
                        \cup {<<ScriptTxIn(t, <<>>, <<>>)>> : t \in SeqsUpTo(Utxos, 1)}
    IN  \E t \in SeqsUpTo(Utxos, MaxLen), s \in script_txins, v \in ViewRefLists :
            /\ tx_raw_output = [BaseRequest EXCEPT !.txins = t, !.script_txins = s]
            /\ tx_view_raw = Blob([BaseView EXCEPT !.inputs = v])

\* requests x views that vary the outputs
InitOutputs ==
    LET txouts == {TxOut("addr1", 2, DEFAULT_COIN), TxOut("addr1", 0, DEFAULT_COIN),
                   TxOut("addr2", 1, DEFAULT_COIN), TxOut("addr1", 2, TokenP1)}
        outputs == {ViewOut("addr1", StrAmount(LovelaceText(2))),
                    ViewOut("addr1", StrAmount(LovelaceText(0))),
                    ViewOut("addr2", StrAmount(LovelaceText(1))),
                    ViewOut("addr1", DictAmount(<<<<DEFAULT_COIN, 2>>>>)),
                    ViewOut("addr1", DictAmount(<<<<DEFAULT_COIN, 0>>>>)),
                    ViewOut("addr1", DictAmount(<<<<DEFAULT_COIN, 2>>, <<PolicyP1, <<<<Asset6161, 2>>>>>>>>))}
    IN  \E t \in SeqsUpTo(txouts, MaxLen), v \in {<<>>} \cup {<<l>> : l \in SeqsUpTo(outputs, MaxLen)} :
            /\ tx_raw_output = [BaseRequest EXCEPT !.txouts = t]
            /\ tx_view_raw = Blob([BaseView EXCEPT !.outputs = v])

\* requests x views that vary the fee, alone and with other mismatches
InitFee ==
    LET fees == {<<>>, <<<<>>>>, <<LovelaceText(0)>>, <<LovelaceText(1)>>, <<LovelaceText(12)>>,
                 <<IntToText(12)>>}
    IN  \E f \in {-1, 0, 1, 12}, b \in {None, {1}}, v \in fees,
           i \in {<<<<UtxoString(U1)>>>>, <<<<UtxoString(U2)>>>>} :
            /\ tx_raw_output = [BaseRequest EXCEPT !.fee = f, !.invalid_before = b]
            /\ tx_view_raw = Blob([BaseView EXCEPT !.fee = v, !.inputs = i])

\* a slot number or None
OptSlots == {None} \cup {{n} : n \in 0..MaxSlot}

\* requests x views that vary the validity interval
InitValidity ==
    LET ranges == UNION {[K -> OptSlots] : K \in SUBSET {"lower bound", "upper bound", "time to live"}}
    IN  \E b \in OptSlots, h \in OptSlots, v \in {<<>>} \cup {<<r>> : r \in ranges} :
            /\ tx_raw_output = [BaseRequest EXCEPT !.invalid_before = b, !.invalid_hereafter = h]
            /\ tx_view_raw = Blob([BaseView EXCEPT !.validity_range = v])

\* the era names, as the request declares them and as the view shows them
EraPairs == {<<<<"m", "a", "r", "y">>, <<"M", "a", "r", "y">>>>,
             <<<<"a", "l", "o", "n", "z", "o">>, <<"A", "l", "o", "n", "z", "o">>>>,
             <<<<"b", "a", "b", "b", "a", "g", "e">>, <<"B", "a", "b", "b", "a", "g", "e">>>>}

\* a minting action and the decoded mint map that shows it
MintOf(collaterals) == [txouts |-> <<[amount |-> 5, coin |-> TokenP1]>>, collaterals |-> collaterals]

MintView == <<<<<<PolicyP1, <<<<Asset6161, 5>>>>>>>>>>

\* a decoded certificate
Cert(name, fields) == [name |-> name, fields |-> fields]

GoodCert == Cert("stake address registration", {"stake credential key hash"})

\* requests x views that vary the collateral-bearing components and the era
InitCollateral ==
    LET script_txins == {<<>>, <<ScriptTxIn(<<>>, <<U1>>, <<>>)>>, <<ScriptTxIn(<<>>, <<U1, U2>>, <<>>)>>}
        mints == {<<<<>>, <<>>>>, <<<<MintOf(<<U2>>)>>, MintView>>}
        script_withdrawals == {<<>>, <<[collaterals |-> <<U3>>]>>, <<[script_file |-> "s"]>>}
        certs == {<<<<>>, <<>>>>,
                  <<<<[collaterals |-> <<U1>>]>>, <<<<GoodCert>>>>>>,
                  <<<<[certificate_file |-> "c"]>>, <<<<GoodCert>>>>>>}
    IN  \E s \in script_txins, m \in mints, w \in script_withdrawals, c \in certs,
           e \in EraPairs, v \in ViewRefLists :
            /\ tx_raw_output = [BaseRequest EXCEPT !.script_txins = s, !.mint = m[1],
                                                   !.script_withdrawals = w,
                                                   !.complex_certs = c[1], !.era = e[1]]
            /\ tx_view_raw = Blob([BaseView EXCEPT !.mint = m[2], !.certificates = c[2],
                                                   !.era = <<e[2]>>, !.collateral_inputs = v])

\* requests x views that vary the reference inputs and the era
InitReference ==
    LET script_txins == {<<>>,
                         <<ScriptTxIn(<<>>, <<>>, <<U1>>)>>,
                         <<[txins |-> <<>>, collaterals |-> <<>>]>>,
                         <<ScriptTxIn(<<>>, <<>>, <<U1>>), ScriptTxIn(<<>>, <<>>, <<U2>>)>>}
        mints == {<<<<>>, <<>>>>,
                  <<<<[txouts |-> <<[amount |-> 5, coin |-> TokenP1]>>, collaterals |-> <<>>,
                       reference_txin |-> <<U3>>]>>, MintView>>}
    IN  \E s \in script_txins, m \in mints, r \in SeqsUpTo(Utxos, 1), e \in EraPairs,
           v \in ViewRefLists :
            /\ tx_raw_output = [BaseRequest EXCEPT !.script_txins = s, !.mint = m[1],
                                                   !.readonly_reference_txins = r, !.era = e[1]]
            /\ tx_view_raw = Blob([BaseView EXCEPT !.mint = m[2], !.era = <<e[2]>>,
                                                   !.reference_inputs = v])

AssetKey62 == <<"a", "s", "s", "e", "t", " ", "6", "2">>

TokenP1b == <<"p", "1", ".", "6", "2">>

PolicyP2 == <<"p", "o", "l", "i", "c", "y", " ", "p", "2">>

TokenP2 == <<"p", "2">>

\* "asset 62 (b)"
AssetKey62b == AssetKey62 \o <<" ", "(", "b", ")">>

PolicyPolicyid == PolicyPrefix \o <<"p", "o", "l", "i", "c", "y", "i", "d">>

TokenPolicyid == <<"p", "o", "l", "i", "c", "y", "i", "d", ".", "6", "1", "6", "1">>

\* requests x views that vary the minting actions and the decoded mint map
InitMint ==
    LET txouts == {[amount |-> 5, coin |-> TokenP1], [amount |-> 5, coin |-> TokenP1b],
                   [amount |-> -5, coin |-> TokenP1], [amount |-> 1, coin |-> TokenP2]}
        actions == {[txouts |-> t, collaterals |-> <<>>] : t \in SeqsUpTo(txouts, 2)}
        p1 == {<<<<Asset6161, 5>>>>, <<<<Asset6161, -5>>>>, <<<<AssetKey62, 5>>>>,
               <<<<Asset6161, 5>>, <<AssetKey62, 5>>>>, <<<<AssetKey62, 5>>, <<Asset6161, 5>>>>}
        p2 == {<<<<DefaultAssetName, 1>>>>, <<<<<<>>, 1>>>>}
        maps == {<<>>, <<<<DEFAULT_COIN, 2>>>>, <<<<PolicyPolicyid, <<<<Asset6161, 5>>>>>>>>,
                 <<<<PolicyP1, <<<<AssetKey62b, 5>>>>>>>>, <<<<PolicyP1, <<<<AssetPrefix, 5>>>>>>>>}
                \cup {<<<<PolicyP1, a>>>> : a \in p1}
                \cup {<<<<PolicyP2, a>>>> : a \in p2}
                \cup {<<<<PolicyP1, a>>, <<PolicyP2, b>>>> : a \in p1, b \in p2}
                \cup {<<<<PolicyP2, b>>, <<DEFAULT_COIN, 2>>, <<PolicyP1, a>>>> : a \in p1, b \in p2}
    IN  \E m \in SeqsUpTo(actions, 2), v \in {<<>>} \cup {<<x>> : x \in maps} :
            /\ tx_raw_output = [BaseRequest EXCEPT !.mint = m]
            /\ tx_view_raw = Blob([BaseView EXCEPT !.mint = v])

\* a decoded withdrawal record
WithdrawalRec(key, hash, amount) == (key :> hash) @@ ("amount" :> amount)

HashAbcd == <<"a", "b", "c", "d">>

Hash1234 == <<"1", "2", "3", "4">>

HashAbcd1234 == HashAbcd \o Hash1234

\* decoded withdrawal records: every credential form alone, two forms together, an
\* empty first candidate, no credential at all, and amounts with and without a number
WithdrawalRecs ==
    <<WithdrawalRec("stake credential key hash", HashAbcd, LovelaceText(1)),
      WithdrawalRec("stake credential key hash", HashAbcd, LovelaceText(2)),
      WithdrawalRec("stake credential script hash", Hash1234, LovelaceText(1)),
      WithdrawalRec("stake credential key hash", HashAbcd1234, LovelaceText(1)),
      WithdrawalRec("credential", "key hash" :> HashAbcd1234, LovelaceText(1)),
      WithdrawalRec("credential", "script hash" :> Hash1234, LovelaceText(1)),
      WithdrawalRec("credential", ("key hash" :> HashAbcd) @@ ("script hash" :> Hash1234), LovelaceText(1)),
      ("stake credential key hash" :> <<>>) @@ WithdrawalRec("stake credential script hash", Hash1234, LovelaceText(1)),
      ("stake credential key hash" :> HashAbcd) @@ WithdrawalRec("stake credential script hash", Hash1234, LovelaceText(1)),
      ("stake credential script hash" :> Hash1234) @@ WithdrawalRec("credential", "key hash" :> HashAbcd, LovelaceText(1)),
      "amount" :> LovelaceText(1),
      WithdrawalRec("stake credential key hash", HashAbcd, <<>>),
      WithdrawalRec("stake credential key hash", HashAbcd, IntToText(1))>>

\* requests x views that vary the withdrawals
InitWithdrawals ==
    LET withdrawals == {[address |-> a, amount |-> n] :
                        a \in {"stake_key", "stake_script", "stake_abcd1234"}, n \in 1..2}
    IN  \E w \in SeqsUpTo(withdrawals, 2), n \in 0..3, i \in DOMAIN WithdrawalRecs, j \in DOMAIN WithdrawalRecs :
            /\ tx_raw_output = [BaseRequest EXCEPT !.withdrawals = w]
            /\ tx_view_raw = Blob([BaseView EXCEPT !.withdrawals =
                                      CASE n = 0 -> <<>>
                                        [] n = 1 -> <<<<>>>>
                                        [] n = 2 -> <<<<WithdrawalRecs[i]>>>>
                                        [] n = 3 -> <<<<WithdrawalRecs[i], WithdrawalRecs[j]>>>>])

\* decoded certificates: registered kinds with a strict subset, all, a foreign, an
\* extra and no field, and an unregistered kind
DecodedCerts ==
    {GoodCert,
     Cert("stake address registration", {"stake credential key hash", "stake credential script hash"}),
     Cert("stake address registration", {"bogus field"}),
     Cert("stake address delegation", {"pool", "stake credential key hash", "bogus field"}),
     Cert("stake pool retirement", {"epoch", "pool"}),
     Cert("MIR", {}),
     Cert("unregistered certificate", {"bogus field"})}

\* requests x views that vary the certificates
InitCertificates ==
    \E cf \in SeqsUpTo({"stake.cert"}, 2), cc \in SeqsUpTo({[certificate_file |-> "c.cert"]}, 1),
       v \in {<<>>} \cup {<<l>> : l \in SeqsUpTo(DecodedCerts, 2)} :
        /\ tx_raw_output = [BaseRequest EXCEPT !.certificate_files = cf, !.complex_certs = cc]
        /\ tx_view_raw = Blob([BaseView EXCEPT !.certificates = v])

\* requests x views that vary the declared and the decoded era
InitEra ==
    \E e \in {<<>>, <<"m", "a", "r", "y">>, <<"A", "l", "o", "n", "z", "o">>, TextBABBAGE,
               <<"b", "a", "b", "b", "a", "g", "e">>, <<"s", "h", "e", "l", "l", "e", "y">>},
       v \in {<<>>, <<<<"M", "a", "r", "y">>>>, <<<<"a", "l", "o", "n", "z", "o">>>>, <<TextALONZO>>,
               <<<<"B", "a", "b", "b", "a", "g", "e">>>>, <<<<"C", "o", "n", "w", "a", "y">>>>},
       f \in {1, 2}, ci \in {<<>>, <<<<>>>>} :
        /\ tx_raw_output = [BaseRequest EXCEPT !.era = e, !.fee = f]
        /\ tx_view_raw = Blob([BaseView EXCEPT !.era = v, !.fee = <<LovelaceText(f)>>,
                                               !.collateral_inputs = ci])

\* requests x views in which every property either matches or mismatches
InitOrder ==
    \E f \in {-1, 1}, b \in {None, {1}}, h \in {None, {1}}, cf \in {<<>>, <<"stake.cert">>},
       i \in {UtxoString(U1), UtxoString(U2)},
       o \in {<<>>, BaseView.outputs},
       fv \in {<<>>, <<LovelaceText(1)>>, <<LovelaceText(2)>>},
       m \in {<<>>, MintView},
       w \in {<<>>, <<<<WithdrawalRec("stake credential key hash", <<"a", "b", "c", "d">>, LovelaceText(1))>>>>},
       c \in {<<>>, <<<<GoodCert>>>>, <<<<Cert("stake address registration", {"bogus field"})>>>>},
       e \in {<<"B", "a", "b", "b", "a", "g", "e">>, <<"A", "l", "o", "n", "z", "o">>},
       ci \in {<<>>, <<<<>>>>, <<<<UtxoString(U1)>>>>},
       ri \in {<<>>, <<<<UtxoString(U1)>>>>} :
        /\ tx_raw_output = [BaseRequest EXCEPT !.fee = f, !.invalid_before = b,
                                               !.invalid_hereafter = h, !.certificate_files = cf]
        /\ tx_view_raw = Blob([inputs |-> <<<<i>>>>,
                               outputs |-> o,
                               fee |-> fv,
                               validity_range |-> BaseView.validity_range,
                               mint |-> m,
                               withdrawals |-> w,
                               certificates |-> c,
                               era |-> <<e>>,
                               collateral_inputs |-> ci,
                               reference_inputs |-> ri])

\* a blob that does not parse, for requests that would and would not match its text
InitMalformed ==
    \E t \in SeqsUpTo(Utxos, 1), f \in {-1, 1, 2} :
        /\ tx_raw_output = [BaseRequest EXCEPT !.txins = t, !.fee = f]
        /\ tx_view_raw = [wellformed |-> FALSE, doc |-> BaseView]

Init ==
    /\ \/ InitInputs
       \/ InitOutputs
       \/ InitFee
       \/ InitValidity
       \/ InitCollateral
       \/ InitReference
       \/ InitOrder
       \/ InitMint
       \/ InitWithdrawals
       \/ InitCertificates
       \/ InitEra
       \/ InitMalformed
    /\ pc = "load"
    /\ tx_loaded = <<>>
    /\ raised = NotRaised
    /\ returned = <<>>
    /\ NoKesTest
    /\ NoFixture
    /\ NoFund

Spec == Init /\ [][Next]_vars

(* --------------------------- test_kes.py: data ------------------------- *)

\* largest issue number the cold counter file holds when a test starts
MaxCounter == 2

KesTests == {"test_expired_kes", "test_opcert_future_kes_period",
             "test_update_valid_opcert", "test_no_kes_period_arg"}

\* VERSIONS.cluster_era of a cluster the module accepts
ClusterEras == {ALONZO, BABBAGE}

\* kes.KesScenarios
KesScenarios == {"ALL_VALID", "INVALID_KES_PERIOD", "INVALID_COUNTERS", "ALL_INVALID"}

\* qKesNodeStateOperationalCertificateNumber values the node reports
OpCertNumbers == 0..MaxCounter

\* cluster.get_kes_period_info(opcert_file): the two verdicts and the metric read
KesOutputs == [valid_counters : BOOLEAN, valid_kes_period : BOOLEAN, number : OpCertNumbers]

\* the same where the test does not read the metric: one number is drawn
KesVerdicts == {o \in KesOutputs : o.number = 0}

\* kes.check_kes_period_info_result: the scenario a result falls into
KesScenario(kes_output) ==
    IF kes_output.valid_counters
    THEN (IF kes_output.valid_kes_period THEN "ALL_VALID" ELSE "INVALID_KES_PERIOD")
    ELSE (IF kes_output.valid_kes_period THEN "INVALID_COUNTERS" ELSE "ALL_INVALID")

\* an operational certificate file
OpCert(kes_period, counter) == [kes_period |-> kes_period, counter |-> counter]

\* cluster.gen_node_operational_cert(..., cold_counter_file, kes_period): the
\* certificate carries the number in the counter file, and the file is incremented
GenNodeOperationalCert(counter, kes_period) ==
    [opcert |-> OpCert(kes_period, counter), counter |-> counter + 1]

\* kes.check_kes_period_info_result(kes_output=..., expected_scenario=...) on the
\* result of kes-period-info for one certificate file, as the tests call it
KesPeriodInfoCheck_TrustExpected(name, kes_output, expected_scenario, running) ==
    [opcert |-> name, output |-> kes_output, scenario |-> expected_scenario,
     expected |-> expected_scenario, node_running |-> running]

KesPeriodInfoCheck(name, kes_output, expected_scenario, running) ==
    [opcert |-> name, output |-> kes_output, scenario |-> KesScenario(kes_output),
     expected |-> expected_scenario, node_running |-> running]

CheckPassed(check) == check.scenario = check.expected

\* a["metrics"]["qKesNodeStateOperationalCertificateNumber"] == b["metrics"][...]
SameOpCertNumber_Unchecked(a, b) == TRUE

SameOpCertNumber(a, b) == a.number = b.number

\* the checks of a sequence that run: the first that fails raises
RECURSIVE UpToFailure(_)
UpToFailure(cs) == IF cs = <<>> THEN <<>>
                   ELSE IF CheckPassed(Head(cs)) THEN <<Head(cs)>> \o UpToFailure(Tail(cs))
                   ELSE <<Head(cs)>>

AllPassed(cs) == \A i \in DOMAIN cs : CheckPassed(cs[i])

\* the epoch _check_block_production returns for in_epoch: it waits for in_epoch when
\* that is not reached yet, then for the end of the epoch it is in, and reads the epoch
ObservedEpochs(in_epoch) ==
    LET reached == IF epoch < in_epoch THEN in_epoch ELSE epoch
    IN  {reached}

\* ledger_state["blocksCurrent"]: null (<<>>), or the pools that made blocks in the epoch
BlocksCurrent == {<<>>, <<{"other_pool"}>>, <<{"pool", "other_pool"}>>}

\* blocks_made = ledger_state["blocksCurrent"] or {}; is_minting = pool_id_dec in blocks_made
IsMinting_Never(blocks_current, pool_id_dec) == FALSE

IsMinting(blocks_current, pool_id_dec) ==
    LET blocks_made == IF blocks_current = <<>> \/ blocks_current[1] = {}
                       THEN {} ELSE blocks_current[1]
    IN  pool_id_dec \in blocks_made

\* _check_block_production: what one call awaited, saw and returned, with the
\* certificate the node ran with
BlockProduction(in_epoch, e, blocks_current, phase) ==
    [in_epoch |-> in_epoch, epoch |-> e, blocks_current |-> blocks_current,
     is_minting |-> IsMinting(blocks_current, "pool"),
     opcert |-> opcert_file[1], phase |-> phase]

\* the words of the CLI's message
MissingKesPeriod == <<"Missing:", "--kes-period", "NATURAL">>

\* str(excinfo.value) of the CLIError
CliMessages == {<<"Usage:", "cardano-cli">>,
                <<"Invalid", "option">> \o MissingKesPeriod,
                MissingKesPeriod \o <<"Usage:", "cardano-cli">>}

\* cluster.cli([... "issue-op-cert" ... "--out-file", out_file]) without --kes-period
CliResults == [raised : BOOLEAN, message : CliMessages, out_file_exists : BOOLEAN]

(* --------------------------- test_kes.py: steps ------------------------ *)

TestFails(message) ==
    /\ outcome' = message
    /\ kpc' = "failed"

TestPasses ==
    /\ outcome' = "passed"
    /\ kpc' = "done"

\* test_expired_kes up to the assertion: the other pools get fresh certificates, the
\* KES keys of the watched pool expire, and one epoch is observed
ExpiredObserve ==
    /\ test = "test_expired_kes"
    /\ kpc = "start"
    /\ LET expired == OpCert("expired", opcert_file[1].counter)
           refreshed == OpCert("current", cold_counter)
       IN  \E e \in ObservedEpochs(epoch + 1), blocks_current \in BlocksCurrent :
               /\ opcert_file' = <<expired>>
               /\ opcerts' = ("expired" :> expired) @@ ("pool2" :> refreshed) @@ ("pool3" :> refreshed)
               /\ epoch' = e
               /\ blocks' = Append(blocks, [BlockProduction(epoch + 1, e, blocks_current, "invalid")
                                            EXCEPT !.opcert = expired])
               /\ IF IsMinting(blocks_current, "pool")
                  THEN TestFails("has minted blocks")
                  ELSE /\ kpc' = "infos"
                       /\ outcome' = outcome
    /\ UNCHANGED <<outside_kes, test, cluster_era, cold_counter, cold_counter_orig, node_running,
                   idx, infos, cli>>

\* test_expired_kes, the kes-period-info checks
ExpiredCheckInfos ==
    /\ test = "test_expired_kes"
    /\ kpc = "infos"
    /\ \E o1, o2, o3 \in KesVerdicts :
           LET cs == <<KesPeriodInfoCheck("expired", o1, "INVALID_KES_PERIOD", node_running),
                       KesPeriodInfoCheck("pool2", o2, "ALL_VALID", node_running),
                       KesPeriodInfoCheck("pool3", o3, "ALL_VALID", node_running)>>
           IN  /\ infos' = infos \o UpToFailure(cs)
               /\ IF AllPassed(cs) THEN TestPasses ELSE TestFails("kes-period-info")
    /\ UNCHANGED <<outside_kes, test, cluster_era, epoch, cold_counter, cold_counter_orig,
                   node_running, opcert_file, opcerts, idx, blocks, cli>>

\* test_opcert_future_kes_period: the counter file is backed up after Alonzo, a
\* certificate for a future KES period is issued and installed, the node restarted
FutureInstallInvalid ==
    /\ test = "test_opcert_future_kes_period"
    /\ kpc = "start"
    /\ LET gen == GenNodeOperationalCert(cold_counter, "future")
       IN  /\ cold_counter_orig' = IF cluster_era > ALONZO THEN {cold_counter} ELSE {}
           /\ cold_counter' = gen.counter
           /\ opcerts' = ("invalid" :> gen.opcert)
           /\ opcert_file' = <<gen.opcert>>
    /\ node_running' = TRUE
    /\ idx' = 0
    /\ kpc' = "invalid"
    /\ UNCHANGED <<outside_kes, test, cluster_era, epoch, blocks, infos, cli, outcome>>

\* one round of `for invalid_opcert_epoch in range(4)`
FutureObserveInvalid ==
    /\ test = "test_opcert_future_kes_period"
    /\ kpc = "invalid"
    /\ idx < 4
    /\ \E e \in ObservedEpochs(epoch + 1), blocks_current \in BlocksCurrent, o \in KesVerdicts :
           LET check == KesPeriodInfoCheck("invalid", o, "INVALID_KES_PERIOD", node_running)
               gen == GenNodeOperationalCert(cold_counter, "current")
           IN  /\ epoch' = e
               /\ blocks' = Append(blocks, BlockProduction(epoch + 1, e, blocks_current, "invalid"))
               /\ IF IsMinting(blocks_current, "pool")
                  THEN /\ TestFails("has minted blocks")
                       /\ UNCHANGED <<infos, cold_counter, opcerts, opcert_file, idx>>
                  ELSE IF idx = 1
                  THEN /\ infos' = Append(infos, check)
                       /\ IF CheckPassed(check)
                          THEN /\ idx' = idx + 1
                               /\ UNCHANGED <<kpc, outcome>>
                          ELSE /\ TestFails("kes-period-info")
                               /\ idx' = idx
                       /\ UNCHANGED <<cold_counter, opcerts, opcert_file>>
                  ELSE IF idx = 2 /\ cluster_era > ALONZO
                  THEN /\ cold_counter' = gen.counter
                       /\ opcerts' = ("overincrement" :> gen.opcert) @@ opcerts
                       /\ opcert_file' = <<gen.opcert>>
                       /\ idx' = idx + 1
                       /\ UNCHANGED <<infos, kpc, outcome>>
                  ELSE /\ idx' = idx + 1
                       /\ kpc' = IF idx = 3 THEN "install_valid" ELSE kpc
                       /\ UNCHANGED <<infos, cold_counter, opcerts, opcert_file, outcome>>
    /\ UNCHANGED <<outside_kes, test, cluster_era, cold_counter_orig, node_running, cli>>

\* the counter file is restored after Alonzo, a certificate for the current KES period
\* is issued and installed, the node restarted
FutureInstallValid ==
    /\ test = "test_opcert_future_kes_period"
    /\ kpc = "install_valid"
    /\ LET restored == IF cluster_era > ALONZO
                       THEN CHOOSE c \in cold_counter_orig : TRUE
                       ELSE cold_counter
           gen == GenNodeOperationalCert(restored, "current")
       IN  /\ cold_counter' = gen.counter
           /\ opcerts' = ("valid" :> gen.opcert) @@ opcerts
           /\ opcert_file' = <<gen.opcert>>
    /\ node_running' = TRUE
    /\ idx' = 0
    /\ kpc' = "recover"
    /\ UNCHANGED <<outside_kes, test, cluster_era, epoch, cold_counter_orig, blocks, infos, cli,
                   outcome>>

\* one round of `for __ in range(3)` with its else branch
RecoveryRound_NoElse(next) ==
    /\ kpc = "recover"
    /\ idx < 3
    /\ \E e \in ObservedEpochs(epoch + 1), blocks_current \in BlocksCurrent :
           /\ epoch' = e
           /\ blocks' = Append(blocks, BlockProduction(epoch + 1, e, blocks_current, "recover"))
           /\ idx' = idx + 1
           /\ IF IsMinting(blocks_current, "pool") \/ idx = 2
              THEN /\ kpc' = next
                   /\ outcome' = outcome
              ELSE UNCHANGED <<kpc, outcome>>
    /\ UNCHANGED <<outside_kes, test, cluster_era, cold_counter, cold_counter_orig, node_running,
                   opcert_file, opcerts, infos, cli>>

RecoveryRound(next) ==
    /\ kpc = "recover"
    /\ idx < 3
    /\ \E e \in ObservedEpochs(epoch + 1), blocks_current \in BlocksCurrent :
           /\ epoch' = e
           /\ blocks' = Append(blocks, BlockProduction(epoch + 1, e, blocks_current, "recover"))
           /\ idx' = idx + 1
           /\ IF IsMinting(blocks_current, "pool")
              THEN /\ kpc' = next
                   /\ outcome' = outcome
              ELSE IF idx = 2
              THEN TestFails("has not minted any blocks")
              ELSE UNCHANGED <<kpc, outcome>>
    /\ UNCHANGED <<outside_kes, test, cluster_era, cold_counter, cold_counter_orig, node_running,
                   opcert_file, opcerts, infos, cli>>

FutureRecover ==
    /\ test = "test_opcert_future_kes_period"
    /\ RecoveryRound("infos")

\* test_opcert_future_kes_period, the closing kes-period-info checks
FutureCheckInfos ==
    /\ test = "test_opcert_future_kes_period"
    /\ kpc = "infos"
    /\ \E o1, o2 \in KesVerdicts :
           LET expected_invalid == IF cluster_era > ALONZO
                                   THEN "INVALID_KES_PERIOD" ELSE "ALL_INVALID"
               cs == <<KesPeriodInfoCheck("valid", o1, "ALL_VALID", node_running),
                       KesPeriodInfoCheck("invalid", o2, expected_invalid, node_running)>>
           IN  /\ infos' = infos \o UpToFailure(cs)
               /\ IF AllPassed(cs) THEN TestPasses ELSE TestFails("kes-period-info")
    /\ UNCHANGED <<outside_kes, test, cluster_era, epoch, cold_counter, cold_counter_orig,
                   node_running, opcert_file, opcerts, idx, blocks, cli>>

\* test_update_valid_opcert: the installed certificate is kept as the old one, a new
\* certificate for the current KES period is issued and installed, the node stopped
UpdateInstallNew ==
    /\ test = "test_update_valid_opcert"
    /\ kpc = "start"
    /\ LET gen == GenNodeOperationalCert(cold_counter, "current")
       IN  /\ cold_counter' = gen.counter
           /\ opcerts' = ("old" :> opcert_file[1]) @@ ("new" :> gen.opcert)
           /\ opcert_file' = <<gen.opcert>>
    /\ node_running' = FALSE
    /\ kpc' = "stopped"
    /\ UNCHANGED <<outside_kes, test, cluster_era, epoch, cold_counter_orig, idx, blocks, infos,
                   cli, outcome>>

\* the checks made while the node is stopped, then the node is started
UpdateCheckStopped ==
    /\ test = "test_update_valid_opcert"
    /\ kpc = "stopped"
    /\ \E o_new, o_old \in KesOutputs :
           LET cs == <<KesPeriodInfoCheck("new", o_new, "ALL_VALID", node_running),
                       KesPeriodInfoCheck("old", o_old, "ALL_VALID", node_running)>>
           IN  /\ infos' = infos \o UpToFailure(cs)
               /\ IF ~AllPassed(cs)
                  THEN /\ TestFails("kes-period-info")
                       /\ UNCHANGED <<node_running, idx>>
                  ELSE IF ~SameOpCertNumber(o_new, o_old)
                  THEN /\ TestFails("assert")
                       /\ UNCHANGED <<node_running, idx>>
                  ELSE /\ node_running' = TRUE
                       /\ idx' = 0
                       /\ kpc' = "recover"
                       /\ outcome' = outcome
    /\ UNCHANGED <<outside_kes, test, cluster_era, epoch, cold_counter, cold_counter_orig,
                   opcert_file, opcerts, blocks, cli>>

UpdateRecover ==
    /\ test = "test_update_valid_opcert"
    /\ RecoveryRound("updated")

\* the checks made once the pool mints again
UpdateCheckInfos ==
    /\ test = "test_update_valid_opcert"
    /\ kpc = "updated"
    /\ \E o_updated, o_invalid \in KesOutputs :
           LET updated == KesPeriodInfoCheck("new", o_updated, "ALL_VALID", node_running)
               invalid == KesPeriodInfoCheck("old", o_invalid, "INVALID_COUNTERS", node_running)
               kes_period_info_old == infos[2].output
           IN  IF ~CheckPassed(updated)
               THEN /\ infos' = Append(infos, updated)
                    /\ TestFails("kes-period-info")
               ELSE IF SameOpCertNumber(o_updated, kes_period_info_old)
               THEN /\ infos' = Append(infos, updated)
                    /\ TestFails("assert")
               ELSE /\ infos' = infos \o <<updated, invalid>>
                    /\ IF CheckPassed(invalid) THEN TestPasses ELSE TestFails("kes-period-info")
    /\ UNCHANGED <<outside_kes, test, cluster_era, epoch, cold_counter, cold_counter_orig,
                   node_running, opcert_file, opcerts, idx, blocks, cli>>

\* test_no_kes_period_arg
NoKesPeriodArg_FileUnchecked ==
    /\ test = "test_no_kes_period_arg"
    /\ kpc = "start"
    /\ \E result \in CliResults :
           /\ cli' = <<result>>
           /\ IF ~result.raised
              THEN TestFails("DID NOT RAISE")
              ELSE IF ~Contains(result.message, MissingKesPeriod)
              THEN TestFails("assert")
              ELSE TestPasses
    /\ UNCHANGED <<outside_kes, test, cluster_era, epoch, cold_counter, cold_counter_orig,
                   node_running, opcert_file, opcerts, idx, blocks, infos>>

NoKesPeriodArg ==
    /\ test = "test_no_kes_period_arg"
    /\ kpc = "start"
    /\ \E result \in CliResults :
           /\ cli' = <<result>>
           /\ IF ~result.raised
              THEN TestFails("DID NOT RAISE")
              ELSE IF ~Contains(result.message, MissingKesPeriod)
              THEN TestFails("assert")
              ELSE IF result.out_file_exists
              THEN TestFails("New operational certificate was generated")
              ELSE TestPasses
    /\ UNCHANGED <<outside_kes, test, cluster_era, epoch, cold_counter, cold_counter_orig,
                   node_running, opcert_file, opcerts, idx, blocks, infos>>

NextKes ==
    \/ ExpiredObserve
    \/ ExpiredCheckInfos
    \/ FutureInstallInvalid
    \/ FutureObserveInvalid
    \/ FutureInstallValid
    \/ FutureRecover
    \/ FutureCheckInfos
    \/ UpdateInstallNew
    \/ UpdateCheckStopped
    \/ UpdateRecover
    \/ UpdateCheckInfos
    \/ NoKesPeriodArg

\* check_tx_view is not running
NoTxView ==
    /\ pc = "done"
    /\ tx_raw_output = BaseRequest
    /\ tx_view_raw = Blob(BaseView)
    /\ tx_loaded = <<BaseView>>
    /\ raised = NotRaised
    /\ returned = <<BaseView>>

\* a test of TestKES starts on a cluster whose pool runs with the last certificate issued
InitKes ==
    /\ NoTxView
    /\ NoFixture
    /\ NoFund
    /\ test \in KesTests
    /\ kpc = "start"
    /\ cluster_era \in ClusterEras
    /\ epoch = 1
    /\ cold_counter \in 1..MaxCounter
    /\ cold_counter_orig = {}
    /\ node_running = TRUE
    /\ opcert_file = <<OpCert("current", cold_counter - 1)>>
    /\ opcerts = <<>>
    /\ idx = 0
    /\ blocks = <<>>
    /\ infos = <<>>
    /\ cli = <<>>
    /\ outcome = ""

SpecKes == InitKes /\ [][NextKes]_vars

\* a test is sequential code whose waits end as epochs pass: it keeps taking its steps
SpecKesFair == SpecKes /\ WF_vars(NextKes)

(* --------------- test_kes.py: short_kes_start_cluster ------------------ *)

\* the pytest-xdist workers that set up the module
NumWorkers == 2

\* largest epochLength drawn for the genesis spec of the cluster scripts
MaxEpochLength == 12

Workers == 1..NumWorkers

\* NUM_OF_EPOCHS as the module computes it on import: None when the era is unsupported
NumOfEpochs(era, cost_model) ==
    LET base == IF era = ALONZO THEN {6}
                ELSE IF era = BABBAGE THEN {7}
                ELSE None
    IN  IF cost_model /\ era >= BABBAGE THEN {n + 1 : n \in base} ELSE base

NUM_OF_EPOCHS == CHOOSE n \in NumOfEpochs(cluster_era, update_cost_model) : TRUE

max_kes_evolutions == 10

\* a file of the shared directory: the name up to its first hyphenated suffix, and the rest
File(stem, rest) == <<stem, rest>>

GenesisSpecFile == File("genesis.spec.json", "")

StartScriptFile == File("start-cluster", "")

\* the files copy_scripts_files can put into destdir, by cluster type
ScriptSets == {{StartScriptFile, File("stop-cluster", ""), GenesisSpecFile},
               {StartScriptFile, File("start-cluster", "-hfc"), File("stop-cluster", ""),
                GenesisSpecFile}}

\* destdir.glob("start-cluster*")
GlobStartCluster(files) == {f \in files : f[1] = "start-cluster"}

\* a path under shared_tmp / "startup_files_short_kes"
InDestdir(file) == [dir |-> "startup_files_short_kes", file |-> file]

\* int((NUM_OF_EPOCHS - 2) * epoch_length + 100)
ClusterStartTimeSlots(epoch_length) == (NUM_OF_EPOCHS - 2) * epoch_length + 100

\* int(cluster_start_time_slots / max_kes_evolutions)
ExactKesPeriodSlots(cluster_start_time_slots) == cluster_start_time_slots \div max_kes_evolutions

\* int(exact_kes_period_slots * 1.2): for the slot counts drawn the product of doubles
\* truncates to the integer below twelve tenths
SlotsPerKESPeriod_NoBuffer(exact_kes_period_slots) == exact_kes_period_slots

SlotsPerKESPeriod(exact_kes_period_slots) == (exact_kes_period_slots * 12) \div 10

\* the genesis spec with slotsPerKESPeriod and maxKESEvolutions updated
ShortKesGenesis(spec) ==
    LET cluster_start_time_slots == ClusterStartTimeSlots(spec.epochLength)
        exact_kes_period_slots == ExactKesPeriodSlots(cluster_start_time_slots)
    IN  [spec EXCEPT !.slotsPerKESPeriod = SlotsPerKESPeriod(exact_kes_period_slots),
                     !.maxKESEvolutions = max_kes_evolutions]

\* with locking.FileLockIfXdist(...): entered when no other worker holds the lock
AcquireLock_Unlocked(w) ==
    /\ wpc[w] = "start"
    /\ lock' = lock \cup {w}
    /\ lock_order' = Append(lock_order, w)
    /\ wpc' = [wpc EXCEPT ![w] = "locked"]
    /\ UNCHANGED <<outside_fixture, update_cost_model, genesis_template, destdir, genesis_spec,
                   copied_by, written_by, start_script>>

AcquireLock(w) ==
    /\ wpc[w] = "start"
    /\ lock = {}
    /\ lock' = lock \cup {w}
    /\ lock_order' = Append(lock_order, w)
    /\ wpc' = [wpc EXCEPT ![w] = "locked"]
    /\ UNCHANGED <<outside_fixture, update_cost_model, genesis_template, destdir, genesis_spec,
                   copied_by, written_by, start_script>>

\* destdir.mkdir(exist_ok=True); destdir_ls = list(destdir.glob("start-cluster*"));
\* if destdir_ls: return destdir_ls[0] -- in the order the file system lists them
ListDestdir(w) ==
    /\ wpc[w] = "locked"
    /\ LET files == IF destdir = <<>> THEN {} ELSE destdir[1]
           destdir_ls == GlobStartCluster(files)
       IN  /\ destdir' = <<files>>
           /\ IF destdir_ls # {}
              THEN /\ \E first \in destdir_ls :
                          start_script' = [start_script EXCEPT ![w] = <<InDestdir(first)>>]
                   /\ lock' = lock \ {w}
                   /\ wpc' = [wpc EXCEPT ![w] = "done"]
              ELSE /\ wpc' = [wpc EXCEPT ![w] = "copy"]
                   /\ UNCHANGED <<lock, start_script>>
    /\ UNCHANGED <<outside_fixture, update_cost_model, genesis_template, lock_order,
                   genesis_spec, copied_by, written_by>>

\* startup_files = ...cluster_scripts.copy_scripts_files(destdir=destdir)
CopyScriptsFiles(w) ==
    /\ wpc[w] = "copy"
    /\ \E scripts \in ScriptSets :
           destdir' = <<destdir[1] \cup scripts>>
    /\ genesis_spec' = genesis_template
    /\ copied_by' = Append(copied_by, w)
    /\ wpc' = [wpc EXCEPT ![w] = "rewrite"]
    /\ UNCHANGED <<outside_fixture, update_cost_model, genesis_template, lock, lock_order,
                   written_by, start_script>>

\* the genesis spec is loaded, updated and dumped; return startup_files.start_script
RewriteGenesisSpec(w) ==
    /\ wpc[w] = "rewrite"
    /\ genesis_spec' = <<ShortKesGenesis(genesis_spec[1])>>
    /\ written_by' = Append(written_by, w)
    /\ start_script' = [start_script EXCEPT ![w] = <<InDestdir(StartScriptFile)>>]
    /\ lock' = lock \ {w}
    /\ wpc' = [wpc EXCEPT ![w] = "done"]
    /\ UNCHANGED <<outside_fixture, update_cost_model, genesis_template, lock_order, destdir,
                   copied_by>>

NextFixture ==
    \E w \in Workers :
        \/ AcquireLock(w)
        \/ ListDestdir(w)
        \/ CopyScriptsFiles(w)
        \/ RewriteGenesisSpec(w)

\* the module was imported on a supported era, the shared directory is not there yet
InitFixture ==
    /\ NoTxView
    /\ KesIdle
    /\ NoFund
    /\ cluster_era \in ClusterEras
    /\ update_cost_model \in BOOLEAN
    /\ \E epoch_length \in 0..MaxEpochLength :
           genesis_template = <<[epochLength |-> epoch_length, slotsPerKESPeriod |-> 129600,
                                 maxKESEvolutions |-> 62]>>
    /\ wpc = [w \in Workers |-> "start"]
    /\ lock = {}
    /\ lock_order = <<>>
    /\ destdir = <<>>
    /\ genesis_spec = <<>>
    /\ copied_by = <<>>
    /\ written_by = <<>>
    /\ start_script = [w \in Workers |-> <<>>]

SpecFixture == InitFixture /\ [][NextFixture]_vars

(* ------- test_plutus_mint_raw.py, test_plutus_mint_build.py: _fund_issuer ------- *)

\* largest collateral_utxo_num drawn
MaxCollateralUtxos == 3

\* largest minting_cost.collateral drawn
MaxCollateral == 7

\* sum(amounts)
RECURSIVE Sum(_)
Sum(amounts) == IF amounts = <<>> THEN 0 ELSE Head(amounts) + Sum(Tail(amounts))

\* collateral_amounts: the list comprehension, then the append of what is left
CollateralAmounts_EvenSplit(collateral, collateral_utxo_num) ==
    [c \in 1..collateral_utxo_num |-> collateral \div collateral_utxo_num]

CollateralAmounts(collateral, collateral_utxo_num) ==
    LET single_collateral_amount == collateral \div collateral_utxo_num
        amounts == [c \in 1..(collateral_utxo_num - 1) |-> single_collateral_amount]
        collateral_subtotal == Sum(amounts)
    IN  Append(amounts, collateral - collateral_subtotal)

\* txouts: the funding output, then one output per collateral amount
FundTxouts(args, amounts) ==
    LET funded == IF args.variant = "build_raw"
                  THEN args.amount + args.minting_cost.fee + args.fee_txsize
                  ELSE args.amount
    IN  <<[address |-> "issuer", amount |-> funded]>>
        \o [i \in 1..Len(amounts) |-> [address |-> "issuer", amount |-> amounts[i]]]

\* cluster_obj.get_utxo(txin=f"{txid}#{ix}"): the output of the transaction at index ix
GetUtxo(ix) ==
    [utxo_hash |-> "txid", utxo_ix |-> ix, amount |-> ledger.outputs[ix + 1].amount,
     address |-> ledger.outputs[ix + 1].address]

\* the amounts are computed and the balance of the issuer is read
ComputeCollateralAmounts ==
    /\ fpc = "start"
    /\ collateral_amounts' = CollateralAmounts(fund_args.minting_cost.collateral,
                                               fund_args.collateral_utxo_num)
    /\ issuer_init_balance' = ledger.issuer_balance
    /\ fpc' = "send"
    /\ UNCHANGED <<outside_fund, fund_args, ledger, fund_result>>

\* send_tx, or build_tx, sign_tx and submit_tx, with join_txouts=False: the ledger gets
\* the outputs in the order given, the change after them (build-raw) or before (build)
SendTx ==
    /\ fpc = "send"
    /\ LET txouts == FundTxouts(fund_args, collateral_amounts)
           change == <<[address |-> "payment", amount |-> 1]>>
       IN  ledger' = [issuer_balance |-> ledger.issuer_balance
                                             + Sum([i \in DOMAIN txouts |-> txouts[i].amount]),
                      outputs |-> IF fund_args.variant = "build_raw"
                                  THEN txouts \o change ELSE change \o txouts]
    /\ fpc' = "check"
    /\ UNCHANGED <<outside_fund, fund_args, collateral_amounts, issuer_init_balance, fund_result>>

\* the balance is asserted, the UTxO records are made and returned
ReturnUtxos ==
    /\ fpc = "check"
    /\ LET raw == fund_args.variant = "build_raw"
           expected == IF raw
                       THEN issuer_init_balance + fund_args.amount + fund_args.minting_cost.fee
                            + fund_args.fee_txsize + fund_args.minting_cost.collateral
                       ELSE issuer_init_balance + fund_args.amount
                            + fund_args.minting_cost.collateral
           start == IF raw THEN 1 ELSE 2
       IN  IF ledger.issuer_balance # expected
           THEN /\ fpc' = "failed"
                /\ fund_result' = fund_result
           ELSE /\ fpc' = "done"
                /\ fund_result' =
                       <<[mint_utxos |-> <<GetUtxo(IF raw THEN 0 ELSE 1)>>,
                          collateral_utxos |->
                              [i \in DOMAIN collateral_amounts |->
                                  [utxo_hash |-> "txid", utxo_ix |-> start + i - 1,
                                   amount |-> collateral_amounts[i], address |-> "issuer"]]]>>
    /\ UNCHANGED <<outside_fund, fund_args, collateral_amounts, issuer_init_balance, ledger>>

NextFund ==
    \/ ComputeCollateralAmounts
    \/ SendTx
    \/ ReturnUtxos

\* _fund_issuer is called by a test of one of the two modules
InitFund ==
    /\ NoTxView
    /\ NoKesTest
    /\ NoFixture
    /\ fpc = "start"
    /\ \E variant \in {"build_raw", "build"}, amount \in {2, 20},
          collateral \in 0..MaxCollateral, collateral_utxo_num \in 1..MaxCollateralUtxos :
           fund_args = [variant |-> variant, amount |-> amount,
                        minting_cost |-> [fee |-> 3, collateral |-> collateral],
                        fee_txsize |-> IF variant = "build_raw" THEN 4 ELSE 0,
                        collateral_utxo_num |-> collateral_utxo_num]
    /\ collateral_amounts = <<>>
    /\ issuer_init_balance = 0
    /\ \E balance \in {0, 100} : ledger = [issuer_balance |-> balance, outputs |-> <<>>]
    /\ fund_result = <<>>

SpecFund == InitFund /\ [][NextFund]_vars

(* ------------------------------- claims -------------------------------- *)

\* the checks of check_tx_view in the order of the source text
StepOrder == <<"load", "inputs", "outputs", "fee", "invalid_before", "invalid_hereafter", "mint",
               "withdrawals", "certificates", "certificate_shapes", "era", "collateral",
               "reference", "return", "done">>

Pos(label) == CHOOSE i \in DOMAIN StepOrder : StepOrder[i] = label

\* the step has been evaluated and fell through to the next one
Passed(step) == pc # "raised" /\ Pos(pc) > Pos(step)

\* the step has been evaluated and raised
Failed(step) == pc = "raised" /\ raised.at = step

Ran(step) == Passed(step) \/ Failed(step)

FailedWith(step, exc, msg) == Failed(step) => raised.exc = exc /\ raised.msg = msg

\* every UTxO of the request's plain inputs and of all its script inputs
RequestInputUtxos ==
    SeqToSet(tx_raw_output.txins)
    \cup UNION {SeqToSet(tx_raw_output.script_txins[i].txins) : i \in DOMAIN tx_raw_output.script_txins}

\* the strings under the view's 'inputs' key, none when the key is absent
ViewInputStrings == IF Loaded.inputs = <<>> THEN {} ELSE SeqToSet(Loaded.inputs[1])

\* C1: the inputs check passes if and only if the set of 'hash#index' strings of the
\* request's plain inputs and of all its script inputs equals the set of strings the
\* view lists under 'inputs' (whatever their order and repetition); it fails with the
\* 'txins' AssertionError otherwise.
C1_InputsSetEquality ==
    Ran("inputs") =>
        /\ Passed("inputs") <=> ({UtxoString(u) : u \in RequestInputUtxos} = ViewInputStrings)
        /\ FailedWith("inputs", "AssertionError", "txins")

\* C1 witness: plain and script inputs together match a view list of two entries
\* that is not in the request's order
C1_Witness ==
    /\ Passed("inputs")
    /\ tx_raw_output.txins = <<U1>>
    /\ Len(tx_raw_output.script_txins) = 1
    /\ tx_raw_output.script_txins[1].txins = <<U2>>
    /\ Loaded.inputs = <<<<UtxoString(U2), UtxoString(U1)>>>>

\* the (address, amount, token) triples of the request's outputs
RequestOutputTriples ==
    {<<tx_raw_output.txouts[i].address, tx_raw_output.txouts[i].amount, tx_raw_output.txouts[i].coin>> :
     i \in DOMAIN tx_raw_output.txouts}

\* the triples of the decoded outputs, each amount expanded by the coin normalizer
ViewOutputTriples ==
    LET outs == IF Loaded.outputs = <<>> THEN <<>> ELSE Loaded.outputs[1]
        expanded(i) == SeqToSet(LoadCoinsData(outs[i].amount))
    IN  UNION {{<<outs[i].address, a[1], a[2]>> : a \in expanded(i)} : i \in DOMAIN outs}

\* C2: the outputs check passes if and only if every (address, amount, coin) triple of
\* the request is among the triples expanded from the decoded outputs; triples the view
\* has in addition never make it fail.
C2_OutputsSubset ==
    Ran("outputs") =>
        /\ Passed("outputs") <=> (\A r \in RequestOutputTriples : r \in ViewOutputTriples)
        /\ FailedWith("outputs", "AssertionError", "txouts")

\* C2 witness: the check passes although the view shows an output the request lacks
C2_Witness ==
    /\ Passed("outputs")
    /\ tx_raw_output.txouts # <<>>
    /\ \E v \in ViewOutputTriples : v \notin RequestOutputTriples

\* the decoded fee text, empty when the key is absent
ViewFeeText == IF Loaded.fee = <<>> THEN <<>> ELSE Loaded.fee[1]

\* C3: with a request fee of -1 the fee step never fails, whatever the decoded fee is
\* (an integer with a unit, an empty string or an absent key).
C3_FeeSentinelNeverFails ==
    (Ran("fee") /\ tx_raw_output.fee = -1) => Passed("fee")

\* the fee text starts with a whitespace-separated integer equal to n
LeadingIntegerIs(text, n) ==
    /\ Split(text) # <<>>
    /\ IsIntText(Split(text)[1])
    /\ TextToInt(Split(text)[1]) = n

\* C4: with a request fee other than -1 the fee check passes if and only if the fee
\* equals the leading integer of the decoded fee text, and fails with the 'fee'
\* AssertionError otherwise.
C4_FeeEquality ==
    (Ran("fee") /\ tx_raw_output.fee # -1) =>
        /\ Passed("fee") <=> LeadingIntegerIs(ViewFeeText, tx_raw_output.fee)
        /\ FailedWith("fee", "AssertionError", "fee")

\* the decoded validity range, empty when the key is absent
ViewValidityRange == IF Loaded.validity_range = <<>> THEN <<>> ELSE Loaded.validity_range[1]

\* the decoded upper bound: 'upper bound' when that key is present, else 'time to live'
ViewUpperBound ==
    IF "upper bound" \in DOMAIN ViewValidityRange THEN ViewValidityRange["upper bound"]
    ELSE IF "time to live" \in DOMAIN ViewValidityRange THEN ViewValidityRange["time to live"]
    ELSE None

\* C5: the invalid-hereafter check compares the request's value with 'upper bound'
\* whenever that key is present (also when it is 0) and with 'time to live' only when
\* 'upper bound' is absent; it passes if and only if the two are equal.
C5_UpperBoundPreferred ==
    Ran("invalid_hereafter") =>
        /\ Passed("invalid_hereafter") <=> (tx_raw_output.invalid_hereafter = ViewUpperBound)
        /\ FailedWith("invalid_hereafter", "AssertionError", "invalid hereafter")

\* the decoded lower bound, None when the range or the key is absent
ViewLowerBound ==
    IF "lower bound" \in DOMAIN ViewValidityRange THEN ViewValidityRange["lower bound"] ELSE None

\* C6: the invalid-before check passes if and only if the request's invalid_before
\* equals the view's 'lower bound' (None on both sides counts as equal, a value against
\* a missing one does not) and fails with the 'invalid before' AssertionError otherwise.
C6_LowerBoundEquality ==
    Ran("invalid_before") =>
        /\ Passed("invalid_before") <=> (tx_raw_output.invalid_before = ViewLowerBound)
        /\ FailedWith("invalid_before", "AssertionError", "invalid before")

\* C6 witness: a request slot of 0 against a view without 'lower bound' fails
C6_Witness ==
    /\ Failed("invalid_before")
    /\ tx_raw_output.invalid_before = {0}
    /\ "lower bound" \notin DOMAIN ViewValidityRange

\* the ordinal of the era the decoded view shows
ViewEraOrdinal == Version(Upper(Loaded.era[1]))

\* the strings of the reference_txin of every script input that has one
ScriptReferenceStrings ==
    UNION {IF "reference_txin" \in DOMAIN tx_raw_output.script_txins[i]
           THEN UtxoStrings(tx_raw_output.script_txins[i].reference_txin)
           ELSE {} : i \in DOMAIN tx_raw_output.script_txins}

\* the strings under the view's 'reference inputs' key, none when the key is absent
ViewReferenceStrings ==
    IF Loaded.reference_inputs = <<>> THEN {} ELSE SeqToSet(Loaded.reference_inputs[1])

\* C7 as stated: from BABBAGE on the reference-inputs check passes if and only if the
\* strings of the script inputs' reference_txin alone equal the strings under
\* 'reference inputs'; below BABBAGE the check is not performed.
C7_ScriptReferencesOnly ==
    Ran("reference") =>
        IF ViewEraOrdinal >= BABBAGE
        THEN Passed("reference") <=> (ScriptReferenceStrings = ViewReferenceStrings)
        ELSE Passed("reference")

\* C7 amended: from BABBAGE on the reference-inputs check passes if and only if the
\* strings of the request's readonly_reference_txins together with those of the script
\* inputs' reference_txin equal the strings under 'reference inputs' (no other request
\* field contributes); it fails with the 'reference inputs' AssertionError otherwise,
\* and below BABBAGE the check is not performed.
C7_ReferenceSetEquality ==
    Ran("reference") =>
        /\ IF ViewEraOrdinal >= BABBAGE
           THEN Passed("reference") <=>
                    (UtxoStrings(tx_raw_output.readonly_reference_txins) \cup ScriptReferenceStrings
                     = ViewReferenceStrings)
           ELSE Passed("reference")
        /\ FailedWith("reference", "AssertionError", "reference inputs are not the expected")

\* C7 witness: a Babbage transaction passes with a read-only reference input and a
\* script reference input, while its minting action's reference input is not counted
C7_Witness ==
    /\ Passed("reference")
    /\ ViewEraOrdinal >= BABBAGE
    /\ tx_raw_output.readonly_reference_txins = <<U2>>
    /\ ScriptReferenceStrings = {UtxoString(U1)}
    /\ tx_raw_output.mint # <<>>
    /\ ViewReferenceStrings = {UtxoString(U1), UtxoString(U2)}

\* the collateral strings of the components of one request field
CollateralStringsOf(components) ==
    UNION {IF "collaterals" \in DOMAIN components[i] THEN UtxoStrings(components[i].collaterals) ELSE {} :
           i \in DOMAIN components}

\* the collateral strings of every minting action, script input, script withdrawal and
\* complex certificate of the request
RequestCollateralStrings ==
    CollateralStringsOf(tx_raw_output.mint) \cup CollateralStringsOf(tx_raw_output.script_txins)
    \cup CollateralStringsOf(tx_raw_output.script_withdrawals)
    \cup CollateralStringsOf(tx_raw_output.complex_certs)

\* C8: below ALONZO the collateral step is skipped, so it passes even when the view has
\* no 'collateral inputs' key and the request carries collaterals; from ALONZO on a view
\* without the key makes check_tx_view fail: the step never passes and no view is returned.
C8_CollateralEraGating ==
    /\ (Ran("collateral") /\ ViewEraOrdinal < ALONZO) => Passed("collateral")
    /\ (/\ tx_loaded # <<>>
        /\ Loaded.era # <<>>
        /\ HasVersion(Upper(Loaded.era[1]))
        /\ ViewEraOrdinal >= ALONZO
        /\ Loaded.collateral_inputs = <<>>) =>
           /\ ~Passed("collateral")
           /\ returned = <<>>

\* C8 witness: a pre-Alonzo request with collaterals is reconciled to the end against a
\* view without the 'collateral inputs' key
C8_Witness ==
    /\ pc = "done"
    /\ ViewEraOrdinal < ALONZO
    /\ Loaded.collateral_inputs = <<>>
    /\ RequestCollateralStrings # {}

\* C9: from ALONZO on, with the 'collateral inputs' key present, the collateral check
\* passes if and only if the collateral strings of the request's minting actions, script
\* inputs, script withdrawals and complex certificates (those that have collaterals)
\* equal the set of strings of the view's list; it fails with the 'collateral inputs'
\* AssertionError otherwise.
C9_CollateralSetEquality ==
    (Ran("collateral") /\ ViewEraOrdinal >= ALONZO /\ Loaded.collateral_inputs # <<>>) =>
        /\ Passed("collateral") <=> (RequestCollateralStrings = SeqToSet(Loaded.collateral_inputs[1]))
        /\ FailedWith("collateral", "AssertionError", "collateral inputs are not the expected")

\* C9 witness: collaterals of a minting action, a script input and a complex certificate
\* (one of them repeated) match the view's list, next to a script withdrawal without any
C9_Witness ==
    /\ Passed("collateral")
    /\ ViewEraOrdinal >= ALONZO
    /\ tx_raw_output.mint # <<>>
    /\ tx_raw_output.script_txins # <<>>
    /\ tx_raw_output.script_withdrawals # <<>>
    /\ tx_raw_output.complex_certs # <<>>
    /\ CollateralStringsOf(tx_raw_output.complex_certs) # {}
    /\ "collaterals" \notin DOMAIN tx_raw_output.script_withdrawals[1]
    /\ Len(Loaded.collateral_inputs[1]) = 2

\* the property a step checks does not match, as the checks are specified
Mismatch(step) ==
    CASE step = "inputs" -> {UtxoString(u) : u \in RequestInputUtxos} # ViewInputStrings
      [] step = "outputs" -> ~(RequestOutputTriples \subseteq ViewOutputTriples)
      [] step = "fee" -> tx_raw_output.fee # -1 /\ ~LeadingIntegerIs(ViewFeeText, tx_raw_output.fee)
      [] step = "invalid_before" -> tx_raw_output.invalid_before # ViewLowerBound
      [] step = "invalid_hereafter" -> tx_raw_output.invalid_hereafter # ViewUpperBound
      [] step = "mint" -> MintMismatch(tx_raw_output, Loaded)
      [] step = "withdrawals" -> WithdrawalsMismatch(tx_raw_output, Loaded)
      [] step = "certificates" -> CertificatesCountMismatch(tx_raw_output, Loaded)
      [] step = "certificate_shapes" -> CertificateShapeMismatch(Loaded)
      [] step = "era" -> EraMismatch(tx_raw_output, Loaded)
      [] step = "collateral" -> /\ ViewEraOrdinal >= ALONZO
                                /\ \/ Loaded.collateral_inputs = <<>>
                                   \/ RequestCollateralStrings # SeqToSet(Loaded.collateral_inputs[1])
      [] step = "reference" -> /\ ViewEraOrdinal >= BABBAGE
                               /\ UtxoStrings(tx_raw_output.readonly_reference_txins)
                                  \cup ScriptReferenceStrings # ViewReferenceStrings

\* the twelve checks, in order
Checks == SubSeq(StepOrder, 2, 13)

\* C10: the checks run in the order inputs, outputs, fee, invalid-before,
\* invalid-hereafter, mint, withdrawals, certificate count, certificate shapes, era,
\* collateral inputs, reference inputs; the error raised is always that of the earliest
\* mismatching property, and the view is returned only when no property mismatches.
C10_FailFastOrder ==
    /\ (pc = "raised" /\ raised.at # "load") =>
           /\ Mismatch(raised.at)
           /\ \A i \in DOMAIN Checks : Pos(Checks[i]) < Pos(raised.at) => ~Mismatch(Checks[i])
    /\ pc = "done" => \A i \in DOMAIN Checks : ~Mismatch(Checks[i])

\* C11: for each of the twelve checks, a mismatch of its property raises an
\* AssertionError whose message names the property and carries the two compared
\* values, the request-derived one and the view-derived one.
C11_MismatchReportContent ==
    \A i \in DOMAIN Checks :
        (Failed(Checks[i]) /\ Mismatch(Checks[i])) =>
            /\ raised.exc = "AssertionError"
            /\ raised.msg # ""
            /\ Len(raised.values) = 2

\* the request has plain inputs and outputs only: no script input, token, mint,
\* withdrawal, certificate, reference input or validity interval
PlainRequest ==
    /\ tx_raw_output.script_txins = <<>>
    /\ tx_raw_output.mint = <<>>
    /\ tx_raw_output.withdrawals = <<>>
    /\ tx_raw_output.script_withdrawals = <<>>
    /\ tx_raw_output.complex_certs = <<>>
    /\ tx_raw_output.certificate_files = <<>>
    /\ tx_raw_output.readonly_reference_txins = <<>>
    /\ tx_raw_output.invalid_before = None
    /\ tx_raw_output.invalid_hereafter = None
    /\ \A i \in DOMAIN tx_raw_output.txouts : tx_raw_output.txouts[i].coin = DEFAULT_COIN

\* the era the request declares, the configured default when it declares none
RequestEraOrdinal ==
    IF tx_raw_output.era = <<>> THEN DEFAULT_TX_ERA ELSE Version(Upper(tx_raw_output.era))

\* the decoded view is the view of the plain request: its inputs, outputs and fee match
\* the request, its era is the request's, and it shows nothing else (no bound, mint,
\* withdrawal, certificate, collateral or reference input)
PlainMatchingView ==
    /\ {UtxoString(u) : u \in RequestInputUtxos} = ViewInputStrings
    /\ OutputsError(GetOr(Loaded.outputs, <<>>)) = ""
    /\ RequestOutputTriples \subseteq ViewOutputTriples
    /\ Split(ViewFeeText) # <<>>
    /\ IsIntText(Split(ViewFeeText)[1])
    /\ tx_raw_output.fee # -1 => TextToInt(Split(ViewFeeText)[1]) = tx_raw_output.fee
    /\ \A k \in DOMAIN ViewValidityRange : ViewValidityRange[k] = None
    /\ GetOr(Loaded.mint, <<>>) = <<>>
    /\ GetOr(Loaded.withdrawals, <<>>) = <<>>
    /\ GetOr(Loaded.certificates, <<>>) = <<>>
    /\ Loaded.era # <<>>
    /\ HasVersion(Upper(Loaded.era[1]))
    /\ tx_raw_output.era # <<>> => HasVersion(Upper(tx_raw_output.era))
    /\ ViewEraOrdinal = RequestEraOrdinal
    /\ ViewEraOrdinal >= ALONZO => Loaded.collateral_inputs = <<<<>>>>
    /\ GetOr(Loaded.reference_inputs, <<>>) = <<>>

\* C12: a plain request reconciled against its matching decoded view raises no
\* exception at any step, and once check_tx_view is done it has returned the mapping
\* loaded from the blob, unmodified.
C12_RoundTrip ==
    (tx_loaded # <<>> /\ PlainRequest /\ PlainMatchingView) =>
        /\ pc # "raised"
        /\ Loaded = tx_view_raw.doc
        /\ pc = "done" => returned = <<tx_view_raw.doc>>

\* C12 witness: a request with two plain inputs has been reconciled to the end against
\* a view that lists them in the other order
C12_Witness ==
    /\ pc = "done"
    /\ PlainRequest
    /\ PlainMatchingView
    /\ tx_raw_output.txins = <<U1, U2>>
    /\ Loaded.inputs = <<<<UtxoString(U2), UtxoString(U1)>>>>
    /\ returned = <<tx_view_raw.doc>>

\* the (amount, coin) pairs of the txouts of every minting action of the request
RequestMintPairs ==
    UNION {{<<t.amount, t.coin>> : t \in SeqToSet(tx_raw_output.mint[i].txouts)} :
           i \in DOMAIN tx_raw_output.mint}

\* the pairs the asset normalizer yields for the view's 'mint' map, none when absent
ViewMintPairs == SeqToSet(LoadAssets(IF Loaded.mint = <<>> THEN <<>> ELSE Loaded.mint[1]))

\* C13: the mint check passes if and only if the set of (amount, coin) pairs of the
\* txouts of all minting actions equals the set of pairs normalized from the view's
\* 'mint' map (absent = empty), whatever the order of actions, policies and assets; it
\* fails with the 'mint' AssertionError otherwise.
C13_MintSetEquality ==
    Ran("mint") =>
        /\ Passed("mint") <=> (RequestMintPairs = ViewMintPairs)
        /\ FailedWith("mint", "AssertionError", "mint")

\* C13 witness: two minting actions pass against a view that shows their tokens under
\* two policies in the other order
C13_Witness ==
    /\ Passed("mint")
    /\ Len(tx_raw_output.mint) = 2
    /\ tx_raw_output.mint[1].txouts = <<[amount |-> 1, coin |-> TokenP2]>>
    /\ tx_raw_output.mint[2].txouts = <<[amount |-> 5, coin |-> TokenP1b], [amount |-> 5, coin |-> TokenP1]>>
    /\ Loaded.mint # <<>>
    /\ Len(Loaded.mint[1]) = 2
    /\ Loaded.mint[1][1][1] = PolicyP1
    /\ Loaded.mint[1][1][2] = <<<<Asset6161, 5>>, <<AssetKey62, 5>>>>

\* the view's 'mint' map, empty when the key is absent
ViewMintMap == IF Loaded.mint = <<>> THEN <<>> ELSE Loaded.mint[1]

\* t without the prefix, t itself when it does not start with it
StripPrefix(t, prefix) == IF OccursAt(t, prefix, 1) THEN SubSeq(t, Len(prefix) + 1, Len(t)) ELSE t

\* the hex asset name of an asset key: what follows 'asset ', up to the next blank;
\* empty for an empty key and for 'default asset'
AssetNameHex(asset_name) ==
    IF asset_name = DefaultAssetName \/ Split(StripPrefix(asset_name, AssetPrefix)) = <<>> THEN <<>>
    ELSE Split(StripPrefix(asset_name, AssetPrefix))[1]

\* 'policyid.assetnamehex', the bare 'policyid' for an empty asset name
ExpectedToken(policy_key, asset_name) ==
    IF AssetNameHex(asset_name) = <<>> THEN StripPrefix(policy_key, PolicyPrefix)
    ELSE StripPrefix(policy_key, PolicyPrefix) \o <<".">> \o AssetNameHex(asset_name)

\* one (amount, token) pair for every policy -> asset -> amount entry, in the order of
\* the map, the lovelace key left out
ExpectedPairs(assets) ==
    Chain([i \in DOMAIN assets |->
              IF assets[i][1] = DEFAULT_COIN THEN <<>>
              ELSE [j \in DOMAIN assets[i][2] |->
                       <<assets[i][2][j][2], ExpectedToken(assets[i][1], assets[i][2][j][1])>>]])

\* C14: the asset normalizer yields exactly one (amount, token) pair for every
\* policy -> asset -> amount entry of the view's 'mint' map, the token being
\* 'policyid.assetnamehex' without the 'policy ' and 'asset ' prefixes and the bare
\* 'policyid' when the asset name is empty or 'default asset'; the lovelace key yields no
\* pair. These pairs are what the mint check compares and reports.
C14_AssetNormalization ==
    Ran("mint") =>
        /\ LoadAssets(ViewMintMap) = ExpectedPairs(ViewMintMap)
        /\ Passed("mint") => RequestMintPairs = SeqToSet(ExpectedPairs(ViewMintMap))
        /\ (Failed("mint") /\ raised.exc = "AssertionError") =>
               raised.values[2] = SeqToSet(ExpectedPairs(ViewMintMap))

\* C14 witness: {'policy policyid': {'asset 6161': 5}} has been normalized to exactly
\* {(5, 'policyid.6161')}
C14_Witness ==
    /\ Failed("mint")
    /\ ViewMintMap = <<<<PolicyPolicyid, <<<<Asset6161, 5>>>>>>>>
    /\ raised.values[2] = {<<5, TokenPolicyid>>}

\* the view's withdrawal records, none when the key is absent
ViewWithdrawals == IF Loaded.withdrawals = <<>> THEN <<>> ELSE Loaded.withdrawals[1]

\* the text under a key of a record, empty when the key is absent
FieldOf(record, key) == IF key \in DOMAIN record THEN record[key] ELSE <<>>

\* the text under a key of the legacy nested 'credential' record, empty when absent
LegacyFieldOf(record, key) ==
    IF "credential" \in DOMAIN record THEN FieldOf(record["credential"], key) ELSE <<>>

\* the four places a decoded withdrawal record may expose its credential, by priority
CredentialCandidates(record) ==
    <<FieldOf(record, "stake credential key hash"),
      FieldOf(record, "stake credential script hash"),
      LegacyFieldOf(record, "key hash"),
      LegacyFieldOf(record, "script hash")>>

HasCredential(record) == \E i \in 1..4 : CredentialCandidates(record)[i] # <<>>

\* the first present (non-empty) candidate
RecordCredential(record) ==
    CredentialCandidates(record)[CHOOSE i \in 1..4 :
                                     /\ CredentialCandidates(record)[i] # <<>>
                                     /\ \A k \in 1..(i - 1) : CredentialCandidates(record)[k] = <<>>]

\* the record's 'amount' text starts with an integer
HasLeadingInteger(record) ==
    /\ Split(record["amount"]) # <<>>
    /\ IsIntText(Split(record["amount"])[1])

\* (credential, amount) of the request: the decoded reward address without its header
\* byte (two hex digits), and the amount
RequestWithdrawalPairs ==
    {<<{Tail(Tail(DecodeBech32(tx_raw_output.withdrawals[i].address)))}, tx_raw_output.withdrawals[i].amount>> :
     i \in DOMAIN tx_raw_output.withdrawals}

\* (credential, amount) of the view's records: the credential when one is exposed, and
\* the leading integer of the 'amount' text
ViewWithdrawalPairs ==
    {<<IF HasCredential(ViewWithdrawals[i]) THEN {RecordCredential(ViewWithdrawals[i])} ELSE None,
       TextToInt(Split(ViewWithdrawals[i]["amount"])[1])>> : i \in DOMAIN ViewWithdrawals}

\* C15: the withdrawals check passes if and only if the set of (credential, amount)
\* pairs of the request, the credential being the decoded reward address without its
\* header, equals the set of (credential, leading integer of 'amount') pairs of the
\* view's records (absent or empty = the empty set); with every amount readable it
\* fails with the 'withdrawals' AssertionError otherwise.
C15_WithdrawalsSetEquality ==
    Ran("withdrawals") =>
        /\ Passed("withdrawals") <=>
               /\ \A i \in DOMAIN ViewWithdrawals : HasLeadingInteger(ViewWithdrawals[i])
               /\ RequestWithdrawalPairs = ViewWithdrawalPairs
        /\ (\A i \in DOMAIN ViewWithdrawals : HasLeadingInteger(ViewWithdrawals[i])) =>
               FailedWith("withdrawals", "AssertionError", "withdrawals")

\* C15 witness: two withdrawals pass against two records listed in the other order, one
\* keyed by a key hash and one by a script hash
C15_Witness ==
    /\ Passed("withdrawals")
    /\ Len(tx_raw_output.withdrawals) = 2
    /\ tx_raw_output.withdrawals[1] = [address |-> "stake_key", amount |-> 2]
    /\ tx_raw_output.withdrawals[2] = [address |-> "stake_script", amount |-> 1]
    /\ Len(ViewWithdrawals) = 2
    /\ FieldOf(ViewWithdrawals[1], "stake credential script hash") = Hash1234
    /\ FieldOf(ViewWithdrawals[2], "stake credential key hash") = HashAbcd

\* the request withdraws once, from the reward address whose credential is 'abcd1234'
WithdrawsFromAbcd1234 ==
    /\ Len(tx_raw_output.withdrawals) = 1
    /\ Tail(Tail(DecodeBech32(tx_raw_output.withdrawals[1].address))) = HashAbcd1234

\* C16: the credential read from a decoded withdrawal record is the first present
\* (non-empty) value among 'stake credential key hash', 'stake credential script hash',
\* 'credential'.'key hash' and 'credential'.'script hash', in this order; so a request
\* withdrawal with credential 'abcd1234' passes against a single record of the same
\* amount that exposes 'abcd1234' first, in the current or in the legacy nested form.
C16_CredentialFallback ==
    Ran("withdrawals") =>
        /\ \A i \in DOMAIN ViewWithdrawals :
               HasCredential(ViewWithdrawals[i]) =>
                   WithdrawalKey(ViewWithdrawals[i]) = {RecordCredential(ViewWithdrawals[i])}
        /\ (/\ WithdrawsFromAbcd1234
            /\ Len(ViewWithdrawals) = 1
            /\ HasCredential(ViewWithdrawals[1])
            /\ RecordCredential(ViewWithdrawals[1]) = HashAbcd1234
            /\ HasLeadingInteger(ViewWithdrawals[1])
            /\ TextToInt(Split(ViewWithdrawals[1]["amount"])[1]) = tx_raw_output.withdrawals[1].amount) =>
               Passed("withdrawals")
        /\ (Failed("withdrawals") /\ raised.exc = "AssertionError") =>
               \A i \in DOMAIN ViewWithdrawals :
                   HasCredential(ViewWithdrawals[i]) =>
                       \E v \in raised.values[2] : v[1] = {RecordCredential(ViewWithdrawals[i])}

\* C16 witness: the withdrawal from 'abcd1234' has passed against the legacy nested
\* record 'credential': {'key hash': 'abcd1234'}
C16_Witness ==
    /\ Passed("withdrawals")
    /\ WithdrawsFromAbcd1234
    /\ Len(ViewWithdrawals) = 1
    /\ LegacyFieldOf(ViewWithdrawals[1], "key hash") = HashAbcd1234
    /\ FieldOf(ViewWithdrawals[1], "stake credential key hash") = <<>>

\* the same withdrawal has passed against 'stake credential key hash': 'abcd1234'
C16_WitnessCurrentForm ==
    /\ Passed("withdrawals")
    /\ WithdrawsFromAbcd1234
    /\ Len(ViewWithdrawals) = 1
    /\ FieldOf(ViewWithdrawals[1], "stake credential key hash") = HashAbcd1234

\* the view's certificates, none when the key is absent
ViewCertificates == IF Loaded.certificates = <<>> THEN <<>> ELSE Loaded.certificates[1]

\* the kind of the certificate is registered in CERTIFICATES_INFORMATION
Registered(certificate) == certificate.name \in DOMAIN CERTIFICATES_INFORMATION

\* C17: the certificate-shape check passes if and only if every decoded certificate of
\* a registered kind shows only fields of that kind's allowed set (a strict subset
\* passes, a foreign field fails); a certificate of an unregistered kind never makes it
\* fail, whatever its fields. It fails with the certificate AssertionError otherwise.
C17_CertificateFieldsSubset ==
    Ran("certificate_shapes") =>
        /\ Passed("certificate_shapes") <=>
               \A i \in DOMAIN ViewCertificates :
                   Registered(ViewCertificates[i]) =>
                       \A f \in ViewCertificates[i].fields :
                           f \in CERTIFICATES_INFORMATION[ViewCertificates[i].name]
        /\ FailedWith("certificate_shapes", "AssertionError", "The output of the certificate")
        /\ Failed("certificate_shapes") => \E i \in DOMAIN ViewCertificates :
               /\ Registered(ViewCertificates[i])
               /\ raised.values = <<ViewCertificates[i].name>>

\* C17 witness: a registration showing a strict subset of its allowed fields and a
\* certificate of an unregistered kind with a 'bogus field' have passed
C17_Witness ==
    /\ Passed("certificate_shapes")
    /\ Len(ViewCertificates) = 2
    /\ ViewCertificates[1] = Cert("stake address registration", {"stake credential key hash"})
    /\ ~Registered(ViewCertificates[2])
    /\ "bogus field" \in ViewCertificates[2].fields

\* the registration with the 'bogus field' has failed the shape check
C17_WitnessBogusField ==
    /\ Failed("certificate_shapes")
    /\ ViewCertificates = <<Cert("stake address registration", {"bogus field"})>>

\* C18: the certificate-count check passes if and only if the number of plain
\* certificate files plus the number of complex certificates of the request equals the
\* number of entries of the view's 'certificates' list (absent = 0), and fails with the
\* 'certificates' AssertionError otherwise; no shape is inspected before it, so with a
\* count mismatch the error is the count's even when a certificate has a foreign field.
C18_CertificateCount ==
    /\ Ran("certificates") =>
           /\ Passed("certificates") <=>
                  (Len(tx_raw_output.certificate_files) + Len(tx_raw_output.complex_certs)
                   = Len(ViewCertificates))
           /\ FailedWith("certificates", "AssertionError", "certificates")
    /\ Ran("certificate_shapes") =>
           (Len(tx_raw_output.certificate_files) + Len(tx_raw_output.complex_certs)
            = Len(ViewCertificates))

\* C18 witness: one plain file and one complex certificate against a single decoded
\* certificate with a foreign field: the count mismatch is what is reported
C18_Witness ==
    /\ Failed("certificates")
    /\ Len(tx_raw_output.certificate_files) = 1
    /\ Len(tx_raw_output.complex_certs) = 1
    /\ ViewCertificates = <<Cert("stake address registration", {"bogus field"})>>
    /\ raised.values = <<2, 1>>

\* two names that differ at most in the case of their letters
SameName(a, b) ==
    /\ Len(a) = Len(b)
    /\ \A i \in DOMAIN a :
           a[i] = b[i] \/ \E k \in 1..26 : {a[i], b[i]} = {LowerCase[k], UpperCase[k]}

\* the era-name -> ordinal table, read without regard to case: {n} or None
OrdinalOf(name) ==
    {n \in {MARY, ALONZO, BABBAGE} :
        \/ n = MARY /\ SameName(name, TextMARY)
        \/ n = ALONZO /\ SameName(name, TextALONZO)
        \/ n = BABBAGE /\ SameName(name, TextBABBAGE)}

\* the ordinal of the view's 'era' string
ViewOrdinal == IF Loaded.era = <<>> THEN None ELSE OrdinalOf(Loaded.era[1])

\* the ordinal of the era the request declares, the configured default for none
RequestOrdinal ==
    IF tx_raw_output.era = <<>> THEN {DEFAULT_TX_ERA} ELSE OrdinalOf(tx_raw_output.era)

\* C19: the era check passes if and only if the ordinal of the view's 'era' string,
\* looked up in the era table without regard to case, equals the ordinal of the era the
\* request declares, looked up the same way, or the configured default ordinal when the
\* request declares none; with both names in the table it fails with the era
\* AssertionError otherwise.
C19_EraOrdinalEquality ==
    Ran("era") =>
        /\ Passed("era") <=> (ViewOrdinal # None /\ ViewOrdinal = RequestOrdinal)
        /\ (ViewOrdinal # None /\ RequestOrdinal # None) =>
               FailedWith("era", "AssertionError", "transaction era is not the expected")

\* C19 witness: a request declaring 'mary' has passed against a view showing 'Mary'
C19_Witness ==
    /\ Passed("era")
    /\ tx_raw_output.era = <<"m", "a", "r", "y">>
    /\ Loaded.era = <<<<"M", "a", "r", "y">>>>

\* a request declaring no era has passed against a view of the default era, and failed
\* against a view of another one
C19_WitnessDefaultEra ==
    /\ tx_raw_output.era = <<>>
    /\ \/ Passed("era") /\ ViewOrdinal = {DEFAULT_TX_ERA}
       \/ Failed("era") /\ ViewOrdinal = {ALONZO} /\ raised.values = <<ALONZO, DEFAULT_TX_ERA>>

\* C20: when the blob does not parse, check_tx_view ends at the load with the parser's
\* error: no check is evaluated (none passes, none raises) and no view, whole or
\* partial, is loaded or returned.
C20_MalformedBlobAborts ==
    ~tx_view_raw.wellformed =>
        /\ pc \in {"load", "raised"}
        /\ pc = "raised" => (raised.at = "load" /\ raised.exc = "YAMLError")
        /\ \A i \in DOMAIN Checks : ~Ran(Checks[i])
        /\ tx_loaded = <<>>
        /\ returned = <<>>

\* C20 witness: the load of a malformed blob has raised, for a request whose inputs
\* would not have matched
C20_Witness ==
    /\ ~tx_view_raw.wellformed
    /\ pc = "raised"
    /\ raised.at = "load"
    /\ tx_raw_output.txins = <<>>

\* C21: no step of check_tx_view, passing or raising, changes the request or any of its
\* nested collections, nor the blob; the decoded view, once loaded, is never rewritten
\* (no key added, removed or changed), and what is returned at the end is exactly the
\* structure parsed from the blob.
C21_ReadOnlyReconciliation ==
    [][/\ tx_raw_output' = tx_raw_output
       /\ tx_view_raw' = tx_view_raw
       /\ tx_loaded # <<>> => tx_loaded' = tx_loaded
       /\ tx_loaded' # <<>> => tx_loaded' = <<tx_view_raw.doc>>
       /\ returned' # <<>> => returned' = <<tx_view_raw.doc>>]_vars

\* C21 witness: a request with a withdrawal has been reconciled to the end against a
\* record that lacks the legacy 'credential' key, and the record is returned as parsed
C21_Witness ==
    /\ pc = "done"
    /\ Len(tx_raw_output.withdrawals) = 1
    /\ Len(ViewWithdrawals) = 1
    /\ "credential" \notin DOMAIN ViewWithdrawals[1]
    /\ returned = <<tx_view_raw.doc>>

\* a raising path: the reference check has failed and the request is what it was
C21_WitnessFailure ==
    /\ Failed("reference")
    /\ tx_raw_output.script_txins # <<>>
    /\ Loaded = tx_view_raw.doc

\* the decoded outputs, none when the key is absent
ViewOutputs == IF Loaded.outputs = <<>> THEN <<>> ELSE Loaded.outputs[1]

\* a scalar amount text that starts with an integer, or a map amount
ReadableAmount(amount) ==
    amount.kind = "str" => (Split(amount.text) # <<>> /\ IsIntText(Split(amount.text)[1]))

\* the lovelace entries of a map amount (at most one)
LovelaceEntries(items) == {i \in DOMAIN items : items[i][1] = DEFAULT_COIN}

\* what the coin normalizer is to yield: for 'N unit' the pair (N, lovelace) unless
\* N = 0; for a map the pair (L, lovelace) of a non-zero lovelace entry L, followed by
\* the pairs of the asset normalizer over the same map
ExpectedCoins(amount) ==
    IF amount.kind = "str"
    THEN IF TextToInt(Split(amount.text)[1]) # 0
         THEN <<<<TextToInt(Split(amount.text)[1]), DEFAULT_COIN>>>>
         ELSE <<>>
    ELSE (IF \E i \in LovelaceEntries(amount.items) : amount.items[i][2] # 0
          THEN <<<<amount.items[CHOOSE i \in LovelaceEntries(amount.items) : TRUE][2], DEFAULT_COIN>>>>
          ELSE <<>>)
         \o LoadAssets(amount.items)

\* C27: for every decoded output amount the coin normalizer yields exactly
\* [(N, lovelace)] for a text 'N unit' with N # 0 and nothing for N = 0, and for a map
\* the non-zero lovelace entry first, followed by the pairs of the asset normalizer;
\* hence the outputs check never passes for a request with an output of 0 lovelace,
\* even when the view shows that very output.
C27_CoinNormalizer ==
    Ran("outputs") =>
        /\ \A i \in DOMAIN ViewOutputs :
               ReadableAmount(ViewOutputs[i].amount) =>
                   LoadCoinsData(ViewOutputs[i].amount) = ExpectedCoins(ViewOutputs[i].amount)
        /\ (\E i \in DOMAIN tx_raw_output.txouts :
                tx_raw_output.txouts[i].amount = 0 /\ tx_raw_output.txouts[i].coin = DEFAULT_COIN) =>
               ~Passed("outputs")
        /\ (Failed("outputs") /\ raised.exc = "AssertionError") =>
               \A t \in raised.values[2] : ~(t[2] = 0 /\ t[3] = DEFAULT_COIN)

\* C27 witness: a request output of 0 lovelace has failed against a view whose only
\* output is that address with {lovelace: 0}
C27_Witness ==
    /\ Failed("outputs")
    /\ tx_raw_output.txouts = <<TxOut("addr1", 0, DEFAULT_COIN)>>
    /\ ViewOutputs = <<ViewOut("addr1", DictAmount(<<<<DEFAULT_COIN, 0>>>>))>>
    /\ raised.values[2] = {}

(* ------------------------- claims on test_kes.py ----------------------- *)

TestPassed == kpc = "done" /\ outcome = "passed"

ScenariosSeen == {infos[i].scenario : i \in DOMAIN infos}

InvalidObservations == {i \in DOMAIN blocks : blocks[i].phase = "invalid"}

\* the ledger state of an observation lists the pool among the block makers
PoolMinted(observation) ==
    /\ observation.blocks_current # <<>>
    /\ "pool" \in observation.blocks_current[1]

\* the counter of the certificate the pool ran with when the test started
LastUsedCounter ==
    IF "invalid" \in DOMAIN opcerts THEN opcerts["invalid"].counter - 1
    ELSE opcert_file[1].counter

\* a certificate the node cannot forge blocks with
Unusable(opcert) ==
    \/ opcert.kes_period \in {"future", "expired"}
    \/ cluster_era > ALONZO /\ opcert.counter = LastUsedCounter + 2

\* the test is past its observations with the invalid certificate
PastInvalidPhase ==
    \/ test = "test_opcert_future_kes_period" /\ "valid" \in DOMAIN opcerts
    \/ test = "test_opcert_future_kes_period" /\ kpc = "install_valid"
    \/ test = "test_expired_kes" /\ (kpc \in {"infos", "done"} \/ infos # <<>>)

C23_WitnessExpired ==
    /\ test = "test_expired_kes"
    /\ kpc = "infos"
    /\ Len(blocks) = 1
    /\ blocks[1].opcert.kes_period = "expired"
    /\ blocks[1].epoch > 1

\* the observations of block production made after the valid certificate was installed
RecoveryObservations == {i \in DOMAIN blocks : blocks[i].phase = "recover"}

\* the recovery loop ended with a block of the pool observed
MintObserved ==
    /\ blocks # <<>>
    /\ blocks[Len(blocks)].phase = "recover"
    /\ PoolMinted(blocks[Len(blocks)])

NotMintedFailure == kpc = "failed" /\ outcome = "has not minted any blocks"

\* what holds of the recovery at every moment: the certificate and the three epochs
RecoveryBounded ==
    /\ Cardinality(RecoveryObservations) <= 3
    /\ \A i \in RecoveryObservations :
           /\ node_running
           /\ blocks[i].opcert.kes_period = "current"
           /\ (test = "test_opcert_future_kes_period" /\ cluster_era > ALONZO)
                  => blocks[i].opcert.counter = LastUsedCounter + 1
           /\ blocks[i].epoch = blocks[i].in_epoch
           /\ i = 1 \/ blocks[i].epoch = blocks[i - 1].epoch + 1
           /\ PoolMinted(blocks[i]) => i = Len(blocks)
    /\ (RecoveryObservations # {} /\ kpc # "recover") => (MintObserved \/ NotMintedFailure)
    /\ NotMintedFailure <=>
           /\ Cardinality(RecoveryObservations) = 3
           /\ \A i \in RecoveryObservations : ~PoolMinted(blocks[i])

C24_WitnessFailure ==
    /\ test = "test_update_valid_opcert"
    /\ NotMintedFailure

\* the kes-period-info checks made while the node was stopped, and after it ran again
StoppedChecks == {i \in DOMAIN infos : ~infos[i].node_running}

RunningChecks == {i \in DOMAIN infos : infos[i].node_running}

\* the two verdicts of a result, read against a scenario
Verdicts(check, period_fine, counter_fresh) ==
    /\ check.output.valid_kes_period = period_fine
    /\ check.output.valid_counters = counter_fresh

\* the test got past the checks it makes while the node is stopped
PastStoppedChecks ==
    /\ test = "test_update_valid_opcert"
    /\ \/ kpc \in {"recover", "updated", "done"}
       \/ blocks # <<>>

\* C25: in test_update_valid_opcert the checks made while the node is stopped, after the
\* new certificate was installed, find the new and the old certificate ALL_VALID with
\* the same node-state certificate number; the checks made once a block minted with the
\* new certificate was observed find a number different from the earlier one, the new
\* certificate ALL_VALID and the old one INVALID_COUNTERS. A test that finds otherwise
\* fails at that check.
C25_OpcertReplacementCounter ==
    test = "test_update_valid_opcert" =>
        /\ StoppedChecks \subseteq {1, 2}
        /\ RunningChecks \subseteq {3, 4}
        /\ \A i \in DOMAIN infos : infos[i].opcert = (IF i \in {1, 3} THEN "new" ELSE "old")
        /\ \A i \in StoppedChecks : opcert_file[1] = opcerts["new"]
        /\ PastStoppedChecks =>
               /\ StoppedChecks = {1, 2}
               /\ Verdicts(infos[1], TRUE, TRUE) /\ infos[1].scenario = "ALL_VALID"
               /\ Verdicts(infos[2], TRUE, TRUE) /\ infos[2].scenario = "ALL_VALID"
               /\ infos[1].output.number = infos[2].output.number
        /\ RunningChecks # {} =>
               /\ PastStoppedChecks
               /\ MintObserved
               /\ blocks[Len(blocks)].opcert = opcerts["new"]
        /\ TestPassed =>
               /\ RunningChecks = {3, 4}
               /\ infos[3].output.number # infos[2].output.number
               /\ Verdicts(infos[3], TRUE, TRUE) /\ infos[3].scenario = "ALL_VALID"
               /\ Verdicts(infos[4], TRUE, FALSE) /\ infos[4].scenario = "INVALID_COUNTERS"
        /\ 4 \in RunningChecks =>
               /\ infos[3].scenario = "ALL_VALID"
               /\ infos[3].output.number # infos[2].output.number

\* the test passed: the number moved from 0 to 1 once the pool minted again
C25_Witness ==
    /\ test = "test_update_valid_opcert"
    /\ TestPassed
    /\ infos[1].output.number = 0
    /\ infos[3].output.number = 1
    /\ opcerts["new"].counter = opcerts["old"].counter + 1

\* the message has the words 'Missing: --kes-period NATURAL' in a row
MentionsMissingKesPeriod(message) ==
    \E i \in 1..Len(message) :
        /\ i + 2 <= Len(message)
        /\ message[i] = "Missing:"
        /\ message[i + 1] = "--kes-period"
        /\ message[i + 2] = "NATURAL"

\* C26: issue-op-cert called without --kes-period passes the test exactly when the call
\* raised a CLI error whose message mentions 'Missing: --kes-period NATURAL' and the
\* output file does not exist afterwards; a call that succeeds, another message, or a
\* certificate file written each fail the test.
C26_MissingKesPeriodIsAnError ==
    (test = "test_no_kes_period_arg" /\ cli # <<>>) =>
        /\ TestPassed <=> /\ cli[1].raised
                          /\ MentionsMissingKesPeriod(cli[1].message)
                          /\ ~cli[1].out_file_exists
        /\ ~TestPassed => kpc = "failed"
        /\ (cli[1].raised /\ MentionsMissingKesPeriod(cli[1].message) /\ cli[1].out_file_exists)
               => outcome = "New operational certificate was generated"
        /\ opcert_file = <<OpCert("current", cold_counter - 1)>>

\* the CLI refused, naming the missing option after other words, and wrote no file
C26_Witness ==
    /\ test = "test_no_kes_period_arg"
    /\ TestPassed
    /\ cli[1].message = <<"Invalid", "option", "Missing:", "--kes-period", "NATURAL">>
    /\ ~cli[1].out_file_exists

(* ---------------- claims on short_kes_start_cluster -------------------- *)

\* the workers inside the body of the with statement
InBody == {w \in Workers : wpc[w] \in {"locked", "copy", "rewrite"}}

Finished == {w \in Workers : wpc[w] = "done"}

\* C28: whatever the interleaving of the workers, at most one is inside the locked body
\* and it holds the lock; the scripts are copied and the genesis spec rewritten at most
\* once, by the worker that got the lock first; every later worker returns a start
\* script that is already there and leaves the genesis spec as the first wrote it; and
\* every worker that is done has a start-cluster script of the one shared directory.
C28_FixtureUnderParallelWorkers ==
    /\ Cardinality(InBody) <= 1
    /\ lock = InBody
    /\ Len(copied_by) <= 1
    /\ Len(written_by) <= 1
    /\ \A i \in DOMAIN copied_by : copied_by[i] = lock_order[1]
    /\ \A i \in DOMAIN written_by : written_by[i] = lock_order[1]
    /\ \A w \in Finished :
           /\ start_script[w] # <<>>
           /\ start_script[w][1].dir = "startup_files_short_kes"
           /\ start_script[w][1].file[1] = "start-cluster"
           /\ start_script[w][1].file \in destdir[1]
           /\ written_by = <<lock_order[1]>>
           /\ genesis_spec = <<ShortKesGenesis(genesis_template[1])>>

\* every worker is done, the last after finding the scripts of the first
C28_Witness ==
    /\ Finished = Workers
    /\ written_by = <<2>>
    /\ lock_order[1] = 2
    /\ start_script[1] # <<>>

\* the number of epochs the cluster start takes, by era and cost model update
StartupEpochs ==
    IF cluster_era = ALONZO THEN 6
    ELSE IF update_cost_model THEN 8 ELSE 7

\* the slots from the start of the Shelley epochs until the cluster is started
StartSlots(epoch_length) == (StartupEpochs - 2) * epoch_length + 100

\* C29: NUM_OF_EPOCHS is 6, 7 or 8, and for every epoch length the genesis spec the fixture
\* writes has maxKESEvolutions = 10 and slotsPerKESPeriod = floor(floor(start_slots / 10) *
\* 12 / 10), so that maxKESEvolutions * slotsPerKESPeriod >= (NUM_OF_EPOCHS - 2) *
\* epochLength + 100: the KES keys outlast the start of the cluster.
C29_ShortKesGenesisParameters ==
    /\ NumOfEpochs(cluster_era, update_cost_model) = {StartupEpochs}
    /\ written_by # <<>> =>
           LET genesis == genesis_spec[1]
               start_slots == StartSlots(genesis.epochLength)
           IN  /\ genesis.epochLength = genesis_template[1].epochLength
               /\ genesis.epochLength >= 0
               /\ genesis.maxKESEvolutions = 10
               /\ genesis.slotsPerKESPeriod = ((start_slots \div 10) * 12) \div 10
               /\ genesis.maxKESEvolutions * genesis.slotsPerKESPeriod >= start_slots

\* 8 epochs of 1 slot: 106 slots to cover, 12 slots per KES period written
C29_Witness ==
    /\ written_by # <<>>
    /\ StartupEpochs = 8
    /\ genesis_spec[1].epochLength = 1
    /\ genesis_spec[1].slotsPerKESPeriod = 12
    /\ genesis_spec[1].maxKESEvolutions = 10

(* ------------------------- claims on _fund_issuer ---------------------- *)

\* what the call funds besides the collateral
Funded ==
    IF fund_args.variant = "build_raw"
    THEN fund_args.amount + fund_args.minting_cost.fee + fund_args.fee_txsize
    ELSE fund_args.amount

\* the output index of the first collateral record
FirstCollateralIx == IF fund_args.variant = "build_raw" THEN 1 ELSE 2

\* C30: for every collateral_utxo_num n >= 1 and collateral C >= 0 the amounts computed
\* are n entries that add up to C, the first n - 1 being floor(C / n) and the last what is
\* left; the collateral records returned carry these amounts at consecutive output
\* indexes, from 1 (build-raw) or 2 (build), right after the funding output and where
\* the ledger has these outputs; and the balance of the issuer grew by the funded amount
\* plus C.
C30_CollateralSplit ==
    LET n == fund_args.collateral_utxo_num
        C == fund_args.minting_cost.collateral
    IN  /\ fpc # "start" =>
               /\ Len(collateral_amounts) = n
               /\ Sum(collateral_amounts) = C
               /\ \A i \in 1..(n - 1) : collateral_amounts[i] = C \div n
               /\ collateral_amounts[n] = C - (n - 1) * (C \div n)
        /\ fpc # "failed"
        /\ fpc = "done" =>
               LET records == fund_result[1].collateral_utxos
                   funding == fund_result[1].mint_utxos[1]
               IN  /\ Len(records) = n
                   /\ \A i \in 1..n :
                          /\ records[i].amount = collateral_amounts[i]
                          /\ records[i].utxo_ix = FirstCollateralIx + i - 1
                          /\ records[i] = GetUtxo(records[i].utxo_ix)
                   /\ funding.utxo_ix = FirstCollateralIx - 1
                   /\ funding.amount = Funded
                   /\ funding.address = "issuer"
                   /\ ledger.issuer_balance = issuer_init_balance + Funded + C

\* build: 7 split over 3 collateral outputs as 2, 2, 3 at the indexes 2, 3, 4
C30_Witness ==
    /\ fpc = "done"
    /\ fund_args.variant = "build"
    /\ collateral_amounts = <<2, 2, 3>>
    /\ fund_result[1].collateral_utxos[3].utxo_ix = 4
    /\ issuer_init_balance = 100

\* build-raw: a collateral smaller than the number of outputs, split as 0, 0, 2
C30_WitnessSmall ==
    /\ fpc = "done"
    /\ fund_args.variant = "build_raw"
    /\ collateral_amounts = <<0, 0, 2>>
    /\ fund_result[1].collateral_utxos[1].utxo_ix = 1

====
